---- MODULE Spec2Model ----
(***************************************************************************)
(* A model of the eddie enforcement runtime (pkg/cmd/eddie/rt/enforcer.go). *)
(*                                                                         *)
(* Two parts of Enforcer.Execute are modelled:                             *)
(*   - expandAll / expand: alias expansion over Go slices (the alias table *)
(*     is a map of slices, so backing arrays and capacities are explicit), *)
(*     provider binding and configuration decoding;                        *)
(*   - enforceAll / enforce and the report aggregator of Execute: the      *)
(*     dispatcher, the errgroup workers, the buffered target channel, the  *)
(*     unbuffered report channel and the doneReporting mutex.              *)
(***************************************************************************)
EXTENDS Integers, Sequences, FiniteSets, TLC

\* ------------------------------------------------------------------ bounds

\* Largest number of annotations in e.targets before expansion.
MaxAnnotations == 2
\* Largest number of annotations written on one alias type.
MaxAliasLen == 2
\* Largest number of terminal targets handed to enforceAll.
MaxTargets == 3
\* Largest runtime.NumCPU() explored.
MaxWorkers == 2
\* Largest number of Report calls one Enforce call makes by itself.
MaxReports == 1

\* Return statements of an analysed function.
MaxReturns == 2

\* Largest number of files of one package handed to the scanner workers.
MaxFiles == 2
\* Largest number of entries of a type ( ... ) group.
MaxSpecs == 2

\* ------------------------------------------------------------- vocabulary

\* Contract names, in the order strings compare.
NameOrder == <<"A", "B", "C", "U", "X">>

NameRank(n) == CHOOSE i \in 1..Len(NameOrder) : NameOrder[i] = n

\* Names for which the Contracts registry holds a provider.
Contracts == {"B", "C"}

\* Names of the alias types the scanned packages may declare.
AliasNames == {"A", "X"}

NoName == ""

\* A configuration payload is the text after the contract name: the empty
\* string, a JSON object with one key, or text that is not JSON.
EmptyConfig == [shape |-> "empty", key |-> "", val |-> 0]
ConfigExpected1 == [shape |-> "object", key |-> "Expected", val |-> 1]
ConfigExpected2 == [shape |-> "object", key |-> "Expected", val |-> 2]
ConfigTypo == [shape |-> "object", key |-> "Expcted", val |-> 1]
ConfigMalformed == [shape |-> "malformed", key |-> "", val |-> 0]

\* Pointer identities of target objects.
NilId == [space |-> "nil", name |-> NoName, n |-> 0, m |-> 0]
BaseId(i) == [space |-> "base", name |-> NoName, n |-> i, m |-> 0]
AliasId(name, k) == [space |-> "alias", name |-> name, n |-> k, m |-> 0]
DupId(base, alias) == [space |-> "dup", name |-> alias.name, n |-> base.n, m |-> alias.n]

\* The declaration a comment at a position is attached to.
DeclAt(pos) ==
    CASE pos = 1 -> [object |-> "M", enclosing |-> "I", kind |-> "InterfaceMethod"]
      [] pos = 2 -> [object |-> "F", enclosing |-> NoName, kind |-> "Function"]
      [] OTHER -> [object |-> "T", enclosing |-> NoName, kind |-> "Type"]

\* The position of an alias type's comment.
AliasPos(name) == 10 + NameRank(name)

NilTarget ==
    [id |-> NilId, contract |-> NoName, config |-> EmptyConfig, pos |-> 0,
     object |-> NoName, enclosing |-> NoName, kind |-> NoName, impl |-> 0]

\* target{...} as findContracts builds it for one comment match.
NewTarget(id, contract, config, pos, decl) ==
    [id |-> id, contract |-> contract, config |-> config, pos |-> pos,
     object |-> decl.object, enclosing |-> decl.enclosing, kind |-> decl.kind,
     impl |-> 0]

\* targets.Less: by position, then by contract name.
TargetLess(a, b) ==
    \/ a.pos < b.pos
    \/ a.pos = b.pos /\ NameRank(a.contract) < NameRank(b.contract)

IsSorted(s) == \A i \in 1..(Len(s) - 1) : ~TargetLess(s[i + 1], s[i])

\* sort.Sort on a short slice is an insertion sort: an element moves left
\* while it is less than its left neighbour.
RECURSIVE InsertSorted(_, _)
InsertSorted(s, x) ==
    IF Len(s) = 0 \/ ~TargetLess(x, s[Len(s)])
    THEN Append(s, x)
    ELSE Append(InsertSorted(SubSeq(s, 1, Len(s) - 1), x), s[Len(s)])

RECURSIVE SortTargets(_)
SortTargets(s) ==
    IF Len(s) = 0 THEN <<>>
    ELSE InsertSorted(SortTargets(SubSeq(s, 1, Len(s) - 1)), s[Len(s)])

\* ------------------------------------------------------------ alias table

\* The capacity of a slice grown to length n by appending one pointer at a
\* time, as findContracts grows mu.aliases[name].
AppendCap(n) ==
    IF n = 0 THEN 0
    ELSE IF n = 1 THEN 1
    ELSE IF n = 2 THEN 2
    ELSE IF n <= 4 THEN 4
    ELSE 8

\* e.aliases is a pair: arr[name] is the backing array of the slice stored
\* under name (AppendCap slots) and len[name] its length; a name with length
\* 0 is not in the map.
AliasSlice(al, name) ==
    IF name \in DOMAIN al.len THEN SubSeq(al.arr[name], 1, al.len[name]) ELSE <<>>

\* e.aliases[name] != nil
IsAlias(al, name) == name \in DOMAIN al.len /\ al.len[name] > 0

AliasCap(al, name) == Len(al.arr[name])

Pad(s, n) == [i \in 1..n |-> IF i <= Len(s) THEN s[i] ELSE NilTarget]

\* The table findContracts leaves for the given alias definitions.
MakeAliases(defs) ==
    [arr |-> [name \in DOMAIN defs |-> Pad(defs[name], AppendCap(Len(defs[name])))],
     len |-> [name \in DOMAIN defs |-> Len(defs[name])]]

\* ------------------------------------------------------------------ expand

NoError == [kind |-> "nil", pos |-> 0, name |-> NoName]

\* A copy that keeps the configuration written on the annotation.
ExpandDupKeepConfig(base, alias) ==
    [base EXCEPT !.id = DupId(base.id, alias.id), !.contract = alias.contract]

\* dup := *base; dup.contract = alias.contract; dup.config = alias.config
ExpandDup(base, alias) ==
    [base EXCEPT !.id = DupId(base.id, alias.id),
                 !.contract = alias.contract,
                 !.config = alias.config]

\* nonTerm = append(nonTerm, moreExpansions...). nonTerm starts as the slice
\* stored in the alias table under base.contract and is cut to nonTerm[:0],
\* which keeps its backing array: while the appended elements fit the
\* capacity they are written into that array, otherwise append allocates a
\* new array and nonTerm no longer shares storage with the table.
AppendNonTerm(base, st, more) ==
    LET n == Len(st.nt)
        k == Len(more)
    IN  IF st.shared /\ n + k <= AliasCap(st.al, base.contract)
        THEN [st EXCEPT
                !.nt = st.nt \o more,
                !.al.arr[base.contract] =
                    [i \in DOMAIN @ |-> IF i > n /\ i <= n + k THEN more[i - n] ELSE @[i]]]
        ELSE [st EXCEPT !.nt = st.nt \o more, !.shared = FALSE]

\* The body of "for _, alias := range work", from element k on.
RECURSIVE ExpandWork(_, _, _, _)
ExpandWork(base, work, k, st) ==
    IF k > Len(work) THEN st
    ELSE LET alias == work[k] IN
         IF alias.id \in st.seen
         THEN [st EXCEPT !.err = alias.contract]
         ELSE LET s1 == [st EXCEPT !.seen = @ \cup {alias.id}] IN
              ExpandWork(base, work, k + 1,
                  IF IsAlias(s1.al, alias.contract)
                  THEN AppendNonTerm(base, s1, AliasSlice(s1.al, alias.contract))
                  ELSE [s1 EXCEPT !.term = Append(@, ExpandDup(base, alias))])

\* "for len(nonTerm) > 0": work is a copy of nonTerm, nonTerm is cut to
\* length 0 and the work elements are processed.
RECURSIVE ExpandRounds(_, _)
ExpandRounds(base, st) ==
    IF st.err # NoName \/ Len(st.nt) = 0 THEN st
    ELSE ExpandRounds(base, ExpandWork(base, st.nt, 1, [st EXCEPT !.nt = <<>>]))

\* Enforcer.expand: the terminal targets of base, the error, and the alias
\* table as the call leaves it.
Expand(base, al) ==
    IF ~IsAlias(al, base.contract)
    THEN [terms |-> <<base>>, err |-> NoError, al |-> al]
    ELSE LET st == ExpandRounds(base,
                     [nt |-> AliasSlice(al, base.contract), shared |-> TRUE,
                      al |-> al, seen |-> {base.id}, term |-> <<>>, err |-> NoName])
         IN  IF st.err # NoName
             THEN [terms |-> <<>>,
                   err |-> [kind |-> "recursive", pos |-> base.pos, name |-> st.err],
                   al |-> st.al]
             ELSE [terms |-> SortTargets(st.term), err |-> NoError, al |-> st.al]

\* -------------------------------------------------- providers and decoding

\* The value provider.New() returns: the test's provider builds
\* &recorder{t, tcs, -1}.
DefaultExpected == -1

NewInstance == [Expected |-> DefaultExpected]

\* The exported fields of the contract struct a provider constructs.
ContractFields(contract) == {"Expected"}

\* A decoder without DisallowUnknownFields: an unknown key is skipped.
DecodeLenient(contract, inst, config) ==
    IF config.shape = "malformed" THEN [ok |-> FALSE, inst |-> inst]
    ELSE IF config.key \notin ContractFields(contract) THEN [ok |-> TRUE, inst |-> inst]
    ELSE [ok |-> TRUE, inst |-> [inst EXCEPT !.Expected = config.val]]

\* d.DisallowUnknownFields(); d.Decode(&tgt.impl)
Decode(contract, inst, config) ==
    IF config.shape = "malformed" THEN [ok |-> FALSE, inst |-> inst]
    ELSE IF config.key \notin ContractFields(contract) THEN [ok |-> FALSE, inst |-> inst]
    ELSE [ok |-> TRUE, inst |-> [inst EXCEPT !.Expected = config.val]]

\* A provider that hands out one instance for all its targets.
ProviderNewShared(heap, contract) ==
    IF Len(heap) > 0 THEN [heap |-> heap, ref |-> 1]
    ELSE [heap |-> Append(heap, NewInstance), ref |-> 1]

\* provider.New(): the instance is a new object on the heap; the result is
\* the heap with it and its address.
ProviderNew(heap, contract) ==
    [heap |-> Append(heap, NewInstance), ref |-> Len(heap) + 1]

\* ------------------------------------------------------------------- state

VARIABLES
    aliasDefs,      \* the alias definitions as scanned (never changes)
    aliases,        \* e.aliases
    targets,        \* e.targets
    expanded,       \* expandAll: the local slice expanded
    loopIdx,        \* index of the loop the Execute goroutine is in
    lastExpand,     \* the most recent call of expand: its argument and results
    impls,          \* the heap of contract instances
    pc,             \* position of the goroutine that runs Execute
    err,            \* the error Execute returns
    numCPU,         \* runtime.NumCPU()
    behaviour,      \* what the Enforce of each registered contract does
    cancelled,      \* the context passed to Execute is cancelled
    groupCancelled, \* the errgroup cancelled its derived context
    groupErr,       \* the errgroup's first error
    ch,             \* enforceAll: the buffered target channel
    chClosed,       \* close(ch) has run
    wpc,            \* position of each worker goroutine
    wtgt,           \* the target a worker is enforcing
    wleft,          \* Report calls the running Enforce has yet to make
    wfail,          \* the running Enforce returns an error
    reportsClosed,  \* close(e.reports) has run
    aggPc,          \* position of the aggregator goroutine
    aggR,           \* the report the aggregator received and has not stored
    ret,            \* Results: position -> messages
    doneReporting,  \* the doneReporting mutex is locked
    enforceCount,   \* terminal target -> number of Enforce calls made on it
    enforceErrors,  \* terminal target -> number of those that returned an error
    reportCalls,    \* number of Report and Reportf calls made
    panicked        \* a send on the closed report channel happened

expandVars == <<aliases, targets, expanded, loopIdx, lastExpand, impls>>

groupVars == <<groupCancelled, groupErr, ch, chClosed>>

workerVars == <<wpc, wtgt, wleft, wfail>>

reportVars == <<reportsClosed, aggPc, aggR, ret, doneReporting>>

ghostVars == <<enforceCount, enforceErrors, reportCalls, panicked>>

\* The state of Execute and its goroutines.
enforcerVars == <<aliasDefs, expandVars, pc, err, numCPU, behaviour, cancelled, groupVars,
                  workerVars, reportVars, ghostVars>>

VARIABLES
    program,            \* the struct types of the loaded packages
    assertions,         \* e.assertions
    assertedInterfaces, \* e.AssertedInterfaces
    context,            \* the contextImpl enforce hands to Enforce
    setExitStatus,      \* e.SetExitStatus
    exitStatus          \* the status Main passes to os.Exit

contextVars == <<program, assertions, assertedInterfaces, context>>

mainVars == <<setExitStatus, exitStatus>>

VARIABLES
    fns,                \* the functions of the packages retlint loads
    members,            \* the order in which ranges over maps visit them
    stats,              \* l.stats
    lintWork,           \* l.work
    round,              \* the rest of "work" in the loop of RetLint.Execute
    lintPc,             \* where RetLint.Execute stands
    lintLog,            \* the changes of funcStat.state made so far
    lintMarks,          \* the calls of markDirty made so far
    lintVisits,         \* the values decide has gone into so far
    dirtyFuncs,         \* the dirty functions RetLint.Execute returns
    lintConfig,         \* l.TargetName and l.AllowedNames
    lintErr             \* the error RetLint.Execute returns, or its panic

lintVars == <<fns, members, stats, lintWork, round, lintPc, lintLog, lintMarks, lintVisits, dirtyFuncs,
              lintConfig, lintErr>>

VARIABLES
    scanPkgs,           \* e.pkgs
    scanTests,          \* e.Tests
    scanCPU,            \* runtime.NumCPU() as findContracts reads it
    scanAt,             \* findContracts: where sendLoop stands
    workCh,             \* findContracts: the buffered channel of files
    workClosed,         \* close(workCh) has run
    scanners,           \* the worker goroutines of findContracts
    mu,                 \* the mutex and the collections it protects
    scanCancelled,      \* the context of findContracts is cancelled
    scanPc,             \* position of the goroutine that runs findContracts
    scanErr,            \* the error findContracts returns
    scanned             \* e.aliases, e.assertions and e.targets as stored

scanVars == <<scanPkgs, scanTests, scanCPU, scanAt, workCh, workClosed, scanners, mu,
              scanCancelled, scanPc, scanErr, scanned>>

\* The state the steps of Execute leave alone.
auxVars == <<contextVars, mainVars, lintVars, scanVars>>

\* The state the steps of findContracts leave alone.
otherVars == <<enforcerVars, contextVars, mainVars, lintVars>>

vars == <<enforcerVars, auxVars>>

Workers == 1..MaxWorkers

NoReport == [target |-> NilTarget, pos |-> 0, info |-> <<>>]

NoExpand == [base |-> NilTarget, terms |-> <<>>, err |-> NoError]

\* ------------------------------------------------------------------ inputs

\* The annotations of one alias type, sorted as findContracts leaves them:
\* they stand one to a line of the type's comment group, each at the position
\* of its line. Only an annotation that names C carries a configuration.
AliasEntries(name, contracts, configs) ==
    LET decl == [object |-> name, enclosing |-> NoName, kind |-> "Type"]
        cfgs(c) == IF c = "C" THEN configs ELSE {EmptyConfig}
        entry(k, c, g) == NewTarget(AliasId(name, k), c, g, AliasPos(name) + k - 1, decl)
        one == UNION {{<<entry(1, c, g)>> : g \in cfgs(c)} : c \in contracts}
        two == UNION {{<<entry(1, c1, g1), entry(2, c2, g2)>> :
                          g1 \in cfgs(c1), g2 \in cfgs(c2)} :
                      c1 \in contracts, c2 \in contracts}
        three == UNION {{<<entry(1, c1, g1), entry(2, c2, g2), entry(3, c3, g3)>> :
                            g1 \in cfgs(c1), g2 \in cfgs(c2), g3 \in cfgs(c3)} :
                        c1 \in contracts, c2 \in contracts, c3 \in contracts}
    IN  {s \in {<<>>} \cup one \cup (IF MaxAliasLen >= 2 THEN two ELSE {})
                      \cup (IF MaxAliasLen >= 3 THEN three ELSE {}) : IsSorted(s)}

\* The annotations of the scanned files that are not on alias types: the
\* i-th is written at position i.
RECURSIVE AnnotationSeqs(_, _, _)
AnnotationSeqs(n, contracts, configs) ==
    IF n = 0 THEN {<<>>}
    ELSE LET shorter == AnnotationSeqs(n - 1, contracts, configs) IN
         shorter \cup
         {Append(s, NewTarget(BaseId(n), c, g, n, DeclAt(n))) :
             s \in {t \in shorter : Len(t) = n - 1}, c \in contracts, g \in configs}

\* The annotations of one comment on one declaration: every match of the
\* comment has the comment's position. findContracts sorts the targets.
RECURSIVE CommentSeqs(_, _, _)
CommentSeqs(n, contracts, configs) ==
    IF n = 0 THEN {<<>>}
    ELSE LET shorter == CommentSeqs(n - 1, contracts, configs) IN
         shorter \cup
         {s \in {Append(t, NewTarget(BaseId(n), c, g, 1, DeclAt(1))) :
                    t \in {u \in shorter : Len(u) = n - 1}, c \in contracts, g \in configs} :
             IsSorted(s)}

RECURSIVE SumOf(_, _)
SumOf(f, S) ==
    IF S = {} THEN 0
    ELSE LET x == CHOOSE y \in S : TRUE IN f[x] + SumOf(f, S \ {x})

\* The number of terminal targets the annotations expand to.
ExpansionSize(defs, anns) ==
    SumOf([i \in 1..Len(anns) |-> Len(Expand(anns[i], MakeAliases(defs)).terms)],
          1..Len(anns))

\* What a contract's Enforce may do: the number of reports it makes and
\* whether it returns an error. A contract is a deterministic program.
Behaviours == [reports : 0..MaxReports, fail : BOOLEAN]

\* The contracts of the run: B reports and may fail, C reports nothing of its
\* own and may fail.
Enforcements ==
    {f \in [Contracts -> Behaviours] : f["C"].reports = 0}

\* The state Execute is in when it calls expandAll.
InitWith(defs, anns, cpus, enforce) ==
    /\ aliasDefs = defs
    /\ aliases = MakeAliases(defs)
    /\ targets = anns
    /\ expanded = <<>>
    /\ loopIdx = 1
    /\ lastExpand = NoExpand
    /\ impls = <<>>
    /\ pc = "expand"
    /\ err = NoError
    /\ numCPU = cpus
    /\ behaviour = enforce
    /\ cancelled = FALSE
    /\ groupCancelled = FALSE
    /\ groupErr = "nil"
    /\ ch = <<>>
    /\ chClosed = FALSE
    /\ wpc = [w \in Workers |-> "idle"]
    /\ wtgt = [w \in Workers |-> NilTarget]
    /\ wleft = [w \in Workers |-> 0]
    /\ wfail = [w \in Workers |-> FALSE]
    /\ reportsClosed = FALSE
    /\ aggPc = "idle"
    /\ aggR = NoReport
    /\ ret = [p \in {} |-> <<>>]
    /\ doneReporting = FALSE
    /\ enforceCount = [t \in {} |-> 0]
    /\ enforceErrors = [t \in {} |-> 0]
    /\ reportCalls = 0
    /\ panicked = FALSE

\* --------------------------------------------------------------- expandAll

\* One iteration of "for _, tgt := range e.targets": expand the target and
\* append its expansion, or return the error of expand.
ExpandNext ==
    /\ pc = "expand"
    /\ loopIdx <= Len(targets)
    /\ LET r == Expand(targets[loopIdx], aliases) IN
        /\ aliases' = r.al
        /\ lastExpand' = [base |-> targets[loopIdx], terms |-> r.terms, err |-> r.err]
        /\ IF r.err # NoError
           THEN /\ err' = r.err
                /\ pc' = "returned"
                /\ UNCHANGED <<expanded, loopIdx>>
           ELSE /\ expanded' = expanded \o r.terms
                /\ loopIdx' = loopIdx + 1
                /\ UNCHANGED <<err, pc>>
    /\ UNCHANGED <<auxVars, aliasDefs, targets, impls, numCPU, behaviour, cancelled, groupVars,
                   workerVars, reportVars, ghostVars>>

\* The first loop of expandAll is over; its locals expansion and err are dead.
ExpandDone ==
    /\ pc = "expand"
    /\ loopIdx > Len(targets)
    /\ pc' = "bind"
    /\ loopIdx' = 1
    /\ lastExpand' = NoExpand
    /\ UNCHANGED <<auxVars, aliasDefs, aliases, targets, expanded, impls, err,
                   numCPU, behaviour, cancelled, groupVars, workerVars, reportVars, ghostVars>>

\* tgt.impl = ... assigns through the pointer: a target of e.targets that is
\* the same object sees the assignment.
SetImpl(s, id, ref) == [i \in DOMAIN s |-> IF s[i].id = id THEN [s[i] EXCEPT !.impl = ref] ELSE s[i]]

\* One iteration of "for _, tgt := range expanded": look the provider up,
\* construct the instance and decode the configuration into it.
BindNext ==
    /\ pc = "bind"
    /\ loopIdx <= Len(expanded)
    /\ LET tgt == expanded[loopIdx] IN
        IF tgt.contract \notin Contracts
        THEN /\ err' = [kind |-> "cannot find contract", pos |-> tgt.pos, name |-> tgt.contract]
             /\ pc' = "returned"
             /\ UNCHANGED <<targets, expanded, loopIdx, impls>>
        ELSE LET new == ProviderNew(impls, tgt.contract)
                 dec == IF tgt.config.shape = "empty"
                        THEN [ok |-> TRUE, inst |-> new.heap[new.ref]]
                        ELSE Decode(tgt.contract, new.heap[new.ref], tgt.config)
             IN  /\ impls' = [new.heap EXCEPT ![new.ref] = dec.inst]
                 /\ expanded' = SetImpl(expanded, tgt.id, new.ref)
                 /\ targets' = SetImpl(targets, tgt.id, new.ref)
                 /\ IF dec.ok
                    THEN /\ loopIdx' = loopIdx + 1
                         /\ UNCHANGED <<err, pc>>
                    ELSE /\ err' = [kind |-> "decode", pos |-> tgt.pos, name |-> tgt.contract]
                         /\ pc' = "returned"
                         /\ UNCHANGED loopIdx
    /\ UNCHANGED <<auxVars, aliasDefs, aliases, lastExpand, numCPU, behaviour, cancelled, groupVars,
                   workerVars, reportVars, ghostVars>>

\* e.targets = expanded; return nil. The local slice is dead afterwards.
BindDone ==
    /\ pc = "bind"
    /\ loopIdx > Len(expanded)
    /\ targets' = expanded
    /\ expanded' = <<>>
    /\ pc' = "report"
    /\ UNCHANGED <<auxVars, aliasDefs, aliases, loopIdx, lastExpand, impls, err,
                   numCPU, behaviour, cancelled, groupVars, workerVars, reportVars, ghostVars>>

\* --------------------------------------------------- Execute and enforceAll

\* ctx.Done() of the errgroup's context is ready: the context derived by
\* errgroup.WithContext is cancelled with its parent, or by the group.
CtxDone == cancelled \/ groupCancelled

\* impl.declaration as enforce resolves it from the target's kind.
Declaration(tgt) ==
    IF tgt.kind = "InterfaceMethod" THEN tgt.enclosing ELSE tgt.object

\* The source position of a declaration.
DeclPos(decl) ==
    CASE decl = "I" -> 21
      [] decl = "F" -> 22
      [] OTHER -> 23

\* The external interrupt (or the caller) cancels the context. A cancellation
\* during expandAll, which never looks at the context, has the effect of one
\* right after it.
Cancel ==
    /\ pc \in {"report", "send", "wait"}
    /\ ~cancelled
    /\ cancelled' = TRUE
    /\ UNCHANGED <<auxVars, aliasDefs, expandVars, pc, err, numCPU, behaviour, groupVars, workerVars,
                   reportVars, ghostVars>>

\* Execute from make(chan report) to the call of enforceAll, and enforceAll
\* up to the send loop: the aggregator goroutine and the workers start.
StartEnforce ==
    /\ pc = "report"
    /\ doneReporting' = TRUE
    /\ aggPc' = "range"
    /\ wpc' = [w \in Workers |-> IF w <= numCPU THEN "select" ELSE "idle"]
    /\ enforceCount' = [t \in {targets[i] : i \in 1..Len(targets)} |-> 0]
    /\ enforceErrors' = [t \in {targets[i] : i \in 1..Len(targets)} |-> 0]
    /\ pc' = "send"
    /\ loopIdx' = 1
    /\ UNCHANGED <<auxVars, aliasDefs, aliases, targets, expanded, lastExpand, impls, err,
                   numCPU, behaviour, cancelled, groupVars, wtgt, wleft, wfail, reportsClosed,
                   aggR, ret, reportCalls, panicked>>

\* The send loop's select takes "case ch <- tgt": the channel has room for
\* one target. The dispatched target is set to nil in e.targets.
Dispatch ==
    /\ pc = "send"
    /\ loopIdx <= Len(targets)
    /\ Len(ch) < 1
    /\ ch' = Append(ch, targets[loopIdx])
    /\ targets' = [targets EXCEPT ![loopIdx] = NilTarget]
    /\ loopIdx' = loopIdx + 1
    /\ UNCHANGED <<auxVars, aliasDefs, aliases, expanded, lastExpand, impls, pc, err, numCPU, behaviour,
                   cancelled, groupCancelled, groupErr, chClosed, workerVars,
                   reportVars, ghostVars>>

\* A send loop that stops one target short.
SendLoopOverEarly == loopIdx >= Len(targets) \/ CtxDone

\* The send loop is left: every target was sent, or the select takes
\* "case <-ctx.Done(): break sendLoop".
SendLoopOver == loopIdx > Len(targets) \/ CtxDone

\* A send loop that is left without close(ch).
DispatchEndNoClose ==
    /\ pc = "send"
    /\ SendLoopOver
    /\ pc' = "wait"
    /\ UNCHANGED <<auxVars, aliasDefs, expandVars, err, numCPU, behaviour, cancelled, groupCancelled,
                   groupErr, ch, chClosed, workerVars, reportVars, ghostVars>>

\* The send loop ends, by exhaustion or by "case <-ctx.Done(): break", and
\* close(ch) runs.
DispatchEnd ==
    /\ pc = "send"
    /\ SendLoopOver
    /\ chClosed' = TRUE
    /\ pc' = "wait"
    /\ UNCHANGED <<auxVars, aliasDefs, expandVars, err, numCPU, behaviour, cancelled, groupCancelled,
                   groupErr, ch, workerVars, reportVars, ghostVars>>

\* An enforce that drops the error Enforce returned.
StartedEnforceSilent(w, tgt, n, fail) ==
    /\ wpc' = [wpc EXCEPT ![w] = IF n = 0 THEN "select" ELSE "running"]
    /\ wtgt' = [wtgt EXCEPT ![w] = IF n = 0 THEN NilTarget ELSE tgt]
    /\ wleft' = [wleft EXCEPT ![w] = n]
    /\ wfail' = [wfail EXCEPT ![w] = FALSE]
    /\ enforceCount' = [enforceCount EXCEPT ![tgt] = @ + 1]
    /\ enforceErrors' = [enforceErrors EXCEPT ![tgt] = @ + (IF fail THEN 1 ELSE 0)]

\* enforce calls tgt.impl.Enforce, which makes n reports of its own and
\* returns an error or nil; enforce adds one Reportf for the error.
\* An Enforce that sends nothing touches no shared state: it has returned,
\* and the worker is back at its select, by the next step of any goroutine.
StartedEnforce(w, tgt, n, fail) ==
    LET sends == n + (IF fail THEN 1 ELSE 0) IN
    /\ wpc' = [wpc EXCEPT ![w] = IF sends = 0 THEN "select" ELSE "running"]
    /\ wtgt' = [wtgt EXCEPT ![w] = IF sends = 0 THEN NilTarget ELSE tgt]
    /\ wleft' = [wleft EXCEPT ![w] = sends]
    /\ wfail' = [wfail EXCEPT ![w] = fail]
    /\ enforceCount' = [enforceCount EXCEPT ![tgt] = @ + 1]
    /\ enforceErrors' = [enforceErrors EXCEPT ![tgt] = @ + (IF fail THEN 1 ELSE 0)]

\* A worker's select takes "case tgt, open := <-ch" with a target: the worker
\* calls enforce, which calls tgt.impl.Enforce.
WorkerReceive(w) ==
    /\ wpc[w] = "select"
    /\ Len(ch) > 0
    /\ ch' = Tail(ch)
    /\ LET does == behaviour[Head(ch).contract] IN
        StartedEnforce(w, Head(ch), does.reports, does.fail)
    /\ UNCHANGED <<auxVars, aliasDefs, expandVars, pc, err, numCPU, behaviour, cancelled, groupCancelled,
                   groupErr, chClosed, reportVars, reportCalls, panicked>>

\* A worker's select takes "case tgt, open := <-ch" on the closed and drained
\* channel: return nil.
WorkerClosed(w) ==
    /\ wpc[w] = "select"
    /\ Len(ch) = 0
    /\ chClosed
    /\ wpc' = [wpc EXCEPT ![w] = "done"]
    /\ UNCHANGED <<auxVars, aliasDefs, expandVars, pc, err, numCPU, behaviour, cancelled, groupVars,
                   wtgt, wleft, wfail, reportVars, ghostVars>>

\* A worker's select takes "case <-ctx.Done()": return ctx.Err(). The
\* errgroup keeps the first error and cancels its context.
WorkerCancelled(w) ==
    /\ wpc[w] = "select"
    /\ CtxDone
    /\ wpc' = [wpc EXCEPT ![w] = "done"]
    /\ groupErr' = IF groupErr = "nil" THEN "context canceled" ELSE groupErr
    /\ groupCancelled' = TRUE
    /\ UNCHANGED <<auxVars, aliasDefs, expandVars, pc, err, numCPU, behaviour, cancelled, ch, chClosed,
                   wtgt, wleft, wfail, reportVars, ghostVars>>

\* The text of impl.Reportf(impl.declaration, "%s: %v", tgt.contract, err).
ErrorInfo(tgt) == <<tgt.contract, ": ", "error">>

\* The report a running Enforce sends next: the contract's own reports, then
\* the Reportf of enforce for the error Enforce returned.
NextReport(w) ==
    [target |-> wtgt[w],
     pos |-> DeclPos(Declaration(wtgt[w])),
     info |-> IF wfail[w] /\ wleft[w] = 1 THEN ErrorInfo(wtgt[w]) ELSE <<"here">>]

\* Report / Reportf: a send on the unbuffered channel e.reports, which the
\* aggregator's range receives. A send on the closed channel panics. After
\* its last send Enforce, and then enforce, return and the worker is back at
\* its select.
WorkerReport(w) ==
    /\ wpc[w] = "running"
    /\ wleft[w] > 0
    /\ IF reportsClosed
       THEN /\ panicked' = TRUE
            /\ UNCHANGED <<aggPc, aggR>>
       ELSE /\ aggPc = "range"
            /\ aggR' = NextReport(w)
            /\ aggPc' = "store"
            /\ UNCHANGED panicked
    /\ wleft' = [wleft EXCEPT ![w] = @ - 1]
    /\ wpc' = [wpc EXCEPT ![w] = IF wleft[w] = 1 THEN "select" ELSE "running"]
    /\ wtgt' = [wtgt EXCEPT ![w] = IF wleft[w] = 1 THEN NilTarget ELSE @]
    /\ wfail' = [wfail EXCEPT ![w] = wleft[w] > 1 /\ @]
    /\ reportCalls' = reportCalls + 1
    /\ UNCHANGED <<auxVars, aliasDefs, expandVars, pc, err, numCPU, behaviour, cancelled, groupVars,
                   reportsClosed, ret, doneReporting, enforceCount, enforceErrors>>

\* The message the aggregator formats for a report.
Message(r) == [contract |-> r.target.contract, chunks |-> <<r.info>>]

Stored(results, pos, msg) ==
    [p \in DOMAIN results \cup {pos} |->
        IF p = pos
        THEN Append(IF p \in DOMAIN results THEN results[p] ELSE <<>>, msg)
        ELSE results[p]]

\* The body of the aggregator's loop: ret[pos] = append(ret[pos], ...).
AggregatorStore ==
    /\ aggPc = "store"
    /\ ret' = Stored(ret, aggR.pos, Message(aggR))
    /\ aggR' = NoReport
    /\ aggPc' = "range"
    /\ UNCHANGED <<auxVars, aliasDefs, expandVars, pc, err, numCPU, behaviour, cancelled, groupVars,
                   workerVars, reportsClosed, doneReporting, ghostVars>>

\* The aggregator's range ends on the closed channel: doneReporting.Unlock().
AggregatorExit ==
    /\ aggPc = "range"
    /\ reportsClosed
    /\ aggPc' = "done"
    /\ doneReporting' = FALSE
    /\ UNCHANGED <<auxVars, aliasDefs, expandVars, pc, err, numCPU, behaviour, cancelled, groupVars,
                   workerVars, reportsClosed, aggR, ret, ghostVars>>

\* A Wait that also returns as soon as the context is cancelled.
WaitReturnsOnCancel == CtxDone \/ \A w \in Workers : wpc[w] \in {"idle", "done"}

\* g.Wait() returns once every goroutine of the group has returned.
WaitReturns == \A w \in Workers : wpc[w] \in {"idle", "done"}

\* enforceAll returns g.Wait(), which also cancels the group's context.
EnforceAllReturn ==
    /\ pc = "wait"
    /\ WaitReturns
    /\ err' = IF groupErr = "nil" THEN NoError
              ELSE [kind |-> groupErr, pos |-> 0, name |-> NoName]
    /\ groupCancelled' = TRUE
    /\ pc' = "closeReports"
    /\ UNCHANGED <<auxVars, aliasDefs, expandVars, numCPU, behaviour, cancelled, groupErr, ch, chClosed,
                   workerVars, reportVars, ghostVars>>

\* close(e.reports)
CloseReports ==
    /\ pc = "closeReports"
    /\ reportsClosed' = TRUE
    /\ pc' = "lock"
    /\ UNCHANGED <<auxVars, aliasDefs, expandVars, err, numCPU, behaviour, cancelled, groupVars,
                   workerVars, aggPc, aggR, ret, doneReporting, ghostVars>>

\* An Execute that does not wait for the aggregator.
MayReturnAtOnce == TRUE

\* doneReporting.Lock() can be taken: the mutex is unlocked.
MayReturn == ~doneReporting

\* doneReporting.Lock(); return ret, err
ExecuteReturn ==
    /\ pc = "lock"
    /\ MayReturn
    /\ doneReporting' = TRUE
    /\ pc' = "returned"
    /\ UNCHANGED <<auxVars, aliasDefs, expandVars, err, numCPU, behaviour, cancelled, groupVars,
                   workerVars, reportsClosed, aggPc, aggR, ret, ghostVars>>

\* ---------------------------------------------------------------- Main

\* The error RunE returns: the error of Execute, or "reports generated"
\* when Execute returned none and SetExitStatus is on.
RunE(execErr, set) ==
    IF execErr = NoError /\ set
    THEN [kind |-> "reports generated", pos |-> 0, name |-> NoName]
    ELSE execErr

\* os.Exit was called: until then exitStatus is -1.
Exited == exitStatus >= 0

\* Main after Execute has returned: the results are printed, RunE returns
\* and Main exits with 1 when root.Execute() returned an error, else with 0.
\* The set_exit_status flag is read only here.
MainExit ==
    /\ pc = "returned"
    /\ ~Exited
    /\ \E set \in BOOLEAN :
        /\ setExitStatus' = set
        /\ exitStatus' = IF RunE(err, set) # NoError THEN 1 ELSE 0
    /\ UNCHANGED <<contextVars, lintVars, scanVars, enforcerVars>>

\* ------------------------------------------------- the invocation context

\* The struct types of the loaded packages and the interface they may
\* implement.
Structs == {"P", "Q"}

StructOrder == <<"P", "Q">>

\* A struct type: whether its method set satisfies the interface I, and the
\* declaration "var _ I = S{}" or "var _ I = &S{}" written for it, if any.
StructShapes ==
    {sh \in [implements : BOOLEAN, asserted : {"no", "value", "pointer"}] :
        sh.asserted # "no" => sh.implements}

Programs == [Structs -> StructShapes]

\* The declarations a contract can be attached to.
Declarations ==
    {[object |-> "I", enclosing |-> NoName, kind |-> "Interface"],
     [object |-> "M", enclosing |-> "I", kind |-> "InterfaceMethod"],
     [object |-> "F", enclosing |-> NoName, kind |-> "Function"],
     [object |-> "N", enclosing |-> NoName, kind |-> "Method"],
     [object |-> "T", enclosing |-> NoName, kind |-> "Type"]}

\* Members of the SSA program: a named type, a function or method.
SsaType(name) == [member |-> "type", name |-> name, recv |-> NoName]

SsaFunc(name, recv) == [member |-> "func", name |-> name, recv |-> recv]

\* e.ssaPgm.FuncValue(fn): the method N is declared on the type T.
FuncValue(object) == SsaFunc(object, IF object = "N" THEN "T" ELSE NoName)

\* An extraction that records only the assertions from a struct value.
AssertionsValueOnly(pgm) ==
    SelectSeq([i \in 1..Len(StructOrder) |-> [intf |-> "I", impl |-> StructOrder[i]]],
              LAMBDA a : pgm[a.impl].asserted = "value")

\* The assertions findContracts extracts from the var declarations, sorted:
\* a value of a named struct type or a pointer to one yields the struct.
Assertions(pgm) ==
    SelectSeq([i \in 1..Len(StructOrder) |-> [intf |-> "I", impl |-> StructOrder[i]]],
              LAMBDA a : pgm[a.impl].asserted \in {"value", "pointer"})

\* Oracle.TypeImplementors: the asserted implementers of the interface, and
\* with assertedOnly off also every struct whose method set satisfies it.
TypeImplementors(pgm, asrt, intf, assertedOnly) ==
    LET declared == {asrt[i].impl : i \in {j \in 1..Len(asrt) : asrt[j].intf = intf}}
        structural == {s \in Structs : pgm[s].implements}
        found == IF assertedOnly THEN declared ELSE declared \cup structural
    IN  SelectSeq(StructOrder, LAMBDA s : s \in found)

\* Oracle.MethodImplementors: the named method of every implementer.
MethodImplementors(pgm, asrt, intf, name, assertedOnly) ==
    LET types == TypeImplementors(pgm, asrt, intf, assertedOnly) IN
    [i \in 1..Len(types) |-> SsaFunc(name, types[i])]

\* An enforce that resolves an interface method's declaration from the
\* method instead of the enclosing interface.
EnforceContextOfObject(tgt, pgm, asrt, assertedOnly) ==
    [target |-> tgt,
     declaration |-> IF tgt.kind \in {"Function", "Method"} THEN FuncValue(tgt.object)
                     ELSE SsaType(tgt.object),
     objects |->
        CASE tgt.kind = "Interface" ->
                LET types == TypeImplementors(pgm, asrt, tgt.object, assertedOnly) IN
                [i \in 1..Len(types) |-> SsaType(types[i])]
          [] tgt.kind = "InterfaceMethod" ->
                MethodImplementors(pgm, asrt, tgt.enclosing, tgt.object, assertedOnly)
          [] OTHER -> <<>>]

\* enforce, up to the call of Enforce: the contextImpl for the target, its
\* declaration and objects set by the switch on tgt.kind.
EnforceContext(tgt, pgm, asrt, assertedOnly) ==
    [target |-> tgt,
     declaration |->
        CASE tgt.kind = "Interface" -> SsaType(tgt.object)
          [] tgt.kind = "InterfaceMethod" -> SsaType(tgt.enclosing)
          [] tgt.kind \in {"Function", "Method"} -> FuncValue(tgt.object)
          [] tgt.kind = "Type" -> SsaType(tgt.object),
     objects |->
        CASE tgt.kind = "Interface" ->
                LET types == TypeImplementors(pgm, asrt, tgt.object, assertedOnly) IN
                [i \in 1..Len(types) |-> SsaType(types[i])]
          [] tgt.kind = "InterfaceMethod" ->
                MethodImplementors(pgm, asrt, tgt.enclosing, tgt.object, assertedOnly)
          [] OTHER -> <<>>]

\* contextImpl.Objects: the implementers for an interface or interface
\* method, the declaration alone for the other kinds.
ContextObjects(impl) ==
    IF impl.target.kind \in {"Interface", "InterfaceMethod"}
    THEN impl.objects
    ELSE <<impl.declaration>>

NoContext == [target |-> NilTarget, declaration |-> SsaType(NoName), objects |-> <<>>]

\* No target is being enforced and Main has not exited.
EddieIdle ==
    /\ program = [s \in Structs |-> [implements |-> FALSE, asserted |-> "no"]]
    /\ assertions = <<>>
    /\ assertedInterfaces = FALSE
    /\ context = NoContext
    /\ setExitStatus = FALSE
    /\ exitStatus = -1

\* enforce builds the context of a target on some declaration.
BuildContext ==
    /\ context = NoContext
    /\ \E decl \in Declarations :
        context' = EnforceContext(NewTarget(BaseId(1), "B", EmptyConfig, 1, decl),
                                  program, assertions, assertedInterfaces)
    /\ UNCHANGED <<enforcerVars, program, assertions, assertedInterfaces, mainVars, lintVars,
                   scanVars>>

\* ----------------------------------------------------------------- retlint

\* The functions of the analysed package.
Funcs == {"f", "g", "h"}

\* Types: a named type, or pointers to one.
Named(name) == [kind |-> "named", name |-> name, elem |-> NoName]

PointerTo(name) == [kind |-> "pointer", name |-> NoName, elem |-> name]

\* The type of a call with several results.
TupleType == [kind |-> "tuple", name |-> NoName, elem |-> NoName]

\* A type that is neither named nor a pointer, such as chan error.
OtherType == [kind |-> "other", name |-> NoName, elem |-> NoName]

\* l.target and l.allowed as resolved from TargetName and AllowedNames.
TargetType == Named("error")

AllowedTypeNames == {"GoodValError", "GoodPtrError"}

\* isAllowed: pointers are unwrapped down to a named type, which is looked
\* up in l.allowed.
IsAllowed(type) ==
    IF type.kind = "pointer" THEN type.elem \in AllowedTypeNames
    ELSE type.kind = "named" /\ type.name \in AllowedTypeNames

\* isAllowed panics on a tuple type.
SeesTuple(type) == type.kind = "tuple"

TuplePanic == "should not see a tuple type; unpack in extract()"

\* The analysis after the panic of isAllowed.
Panicked(l) == [l EXCEPT !.panicked = TRUE]

\* A decide for constants that tests the type of nil as well.
NilIsConstant(val) == ~IsAllowed(val.type)

\* decide on a constant: nil is ignored, any other constant must be of an
\* allowed type.
DisallowedConst(val) == ~val.isNil /\ ~IsAllowed(val.type)

\* SSA values. site tells apart the instructions of different return
\* statements; the seen map of analyze is keyed by the value.
ConstNil(site) ==
    [op |-> "Const", site |-> site, type |-> TargetType, isNil |-> TRUE]

ConstOf(site, type) ==
    [op |-> "Const", site |-> site, type |-> type, isNil |-> FALSE]

Alloc(site, type) == [op |-> "Alloc", site |-> site, type |-> type]

CallTo(site, callee, type) ==
    [op |-> "Call", site |-> site, type |-> type, callee |-> callee]

Extract(site, tuple, index, type) ==
    [op |-> "Extract", site |-> site, type |-> type, tuple |-> tuple, index |-> index]

MakeInterface(site, x) ==
    [op |-> "MakeInterface", site |-> site, type |-> TargetType, x |-> x]

Phi(site, edges) == [op |-> "Phi", site |-> site, type |-> TargetType, edges |-> edges]

TypeAssert(site, asserted) ==
    [op |-> "TypeAssert", site |-> site, type |-> asserted, asserted |-> asserted]

UnOp(site, tok, x, type) ==
    [op |-> "UnOp", site |-> site, type |-> type, tok |-> tok, x |-> x]

\* v, ok := m[k]: the lookup yields a tuple, which Extract projects.
Lookup(site) == [op |-> "Lookup", site |-> site, type |-> TupleType]

\* An edge that leads back to the phi of that site: the phi of a loop is
\* among the values its own edges lead to.
PhiRef(site) == [op |-> "PhiRef", site |-> site, type |-> TargetType]

\* The phis of loops: a phi that is its own edge, before or after an edge
\* of a disallowed type, and two phis that are edges of each other.
LoopPhi(site) ==
    CASE site = 1 -> Phi(1, <<MakeInterface(1, Alloc(1, PointerTo("GoodPtrError"))), PhiRef(1)>>)
      [] site = 2 -> Phi(2, <<PhiRef(2), MakeInterface(2, Alloc(2, PointerTo("BadError")))>>)
      [] OTHER -> Phi(3, <<Phi(4, <<PhiRef(3), MakeInterface(4, Alloc(4, PointerTo("GoodPtrError")))>>),
                           MakeInterface(3, Alloc(3, PointerTo("BadError")))>>)

\* because: a chain of one DirtyReason, the reason and the value it is
\* attached to.
Because(value, reason) == <<[reason |-> reason, value |-> value]>>

\* funcStat as stat creates it; dirties maps a caller to its call.
NewStat == [state |-> "Unknown", why |-> <<>>, dirties |-> [c \in {} |-> NoName]]

\* The funcStat shared by the functions without a result of the target
\* type.
clean == [state |-> "Clean", why |-> <<>>, dirties |-> [c \in {} |-> NoName]]

\* extract finds no result of the target type in the signature of fn.
Irrelevant(l, fn) == l.fns[fn].targetIndexes = <<>>

\* RetLint.stat: the memoized funcStat of fn; a new one joins l.work and
\* extract records its return statements and target indexes, which are read
\* from the program. For an irrelevant function extract puts the shared
\* clean record into l.stats; the funcStat stat made stays in l.work and
\* with the caller, has no return statements and is never looked up again.
Stat(l, fn) ==
    IF fn \in DOMAIN l.stats THEN l
    ELSE [l EXCEPT !.stats = [x \in DOMAIN l.stats \cup {fn} |->
                                  IF x # fn THEN l.stats[x]
                                  ELSE IF Irrelevant(l, fn) THEN clean ELSE NewStat],
                   !.work = Append(@, fn)]

\* stat.state = to, with the change of state noted.
SetState(l, fn, to) ==
    [l EXCEPT !.stats[fn].state = to,
              !.log = IF l.stats[fn].state = to THEN @
                      ELSE Append(@, [fn |-> fn, from |-> l.stats[fn].state, to |-> to])]

\* A range over stat.dirties that visits no caller.
DirtiesNone(l, fn) == <<>>

\* The callers registered in stat.dirties, in the order the range over the
\* map visits them.
DirtiesSeq(l, fn) == SelectSeq(l.order, LAMBDA c : c \in DOMAIN l.stats[fn].dirties)

\* markDirty: keep the explanation if it is the first or a shorter one, make
\* the function dirty and pass "calls" plus the explanation to every
\* function registered in dirties.
RECURSIVE MarkDirty(_, _, _)
RECURSIVE MarkChained(_, _, _, _, _)
\* A test that also prefers an explanation of the same length.
NotLonger(why, stored) == Len(stored) = 0 \/ Len(why) <= Len(stored)

\* "stat.why == nil || len(why) < len(stat.why)"
Shorter(why, stored) == Len(stored) = 0 \/ Len(why) < Len(stored)

\* No funcStat of a differs from that of b in its state, its explanation or
\* its dirties.
SameStats(a, b) ==
    /\ DOMAIN a = DOMAIN b
    /\ \A x \in DOMAIN a :
        /\ a[x].state = b[x].state
        /\ a[x].why = b[x].why
        /\ a[x].dirties = b[x].dirties

\* One call of markDirty as lintMarks keeps it: the function, its state and
\* its explanation before the call, the explanation offered, and whether
\* the call changed the explanation of the function or any funcStat.
Marked(l, fn, why, res) ==
    [res EXCEPT !.marks = Append(@, [fn |-> fn, state |-> l.stats[fn].state,
                                     stored |-> l.stats[fn].why, offered |-> why,
                                     replaced |-> res.stats[fn].why # l.stats[fn].why,
                                     unchanged |-> SameStats(res.stats, l.stats)])]

\* A markDirty that does not pass the explanation on to dirties.
MarkDirtyAlone(l, fn, why) ==
    LET stat == l.stats[fn]
        changed == Shorter(why, stat.why)
    IN  Marked(l, fn, why,
               SetState(IF changed THEN [l EXCEPT !.stats[fn].why = why] ELSE l, fn, "Dirty"))

\* A markDirty that stores the explanation and leaves the state alone.
MarkDirtyStateless(l, fn, why) ==
    LET stat == l.stats[fn]
        changed == Shorter(why, stat.why)
    IN  Marked(l, fn, why, IF changed THEN [l EXCEPT !.stats[fn].why = why] ELSE l)

MarkDirty(l, fn, why) ==
    LET stat == l.stats[fn]
        changed == Shorter(why, stat.why)
        l1 == IF changed THEN [l EXCEPT !.stats[fn].why = why] ELSE l
    IN  Marked(l, fn, why,
               IF stat.state = "Dirty" /\ ~changed THEN l1
               ELSE MarkChained(SetState(l1, fn, "Dirty"), fn, DirtiesSeq(l1, fn), 1, why))

MarkChained(l, fn, chained, k, why) ==
    IF k > Len(chained) THEN l
    ELSE LET call == l.stats[fn].dirties[chained[k]] IN
         MarkChained(MarkDirty(l, chained[k], Because(call, "calls") \o why),
                     fn, chained, k + 1, why)

\* A decide that lets a call without a static callee pass.
CalleeIgnored(l, fn, val) == l

\* decide on a call with no static callee, a call through a function value
\* or an interface method: the function is dirty.
CalleeNotStatic(l, fn, val) == MarkDirty(l, fn, Because(val, "callee not static"))

\* The return statements of fn and the indexes of its results of the
\* target type, as extract stores them in the funcStat.
Returns(l, fn) == l.fns[fn].returns

TargetIndexes(l, fn) == l.fns[fn].targetIndexes

\* analyze and decide. Both carry the analysis l and hand it back; decide
\* also hands back the seen set of the analyze it works for. The first call
\* of an irrelevant function is handed the funcStat stat made, which
\* analyze finds without return statements and which notes the caller in
\* its own dirties; later calls are handed the shared clean record. After a
\* panic of isAllowed nothing more is decided.
RECURSIVE Analyze(_, _)
RECURSIVE AnalyzeFrom(_, _, _, _, _)
RECURSIVE Decide(_, _, _, _)
RECURSIVE DecideEdges(_, _, _, _, _)

\* analyze: a no-op unless the state is Unknown; the function becomes
\* Analyzing and every target result of every return statement is decided,
\* until the state is no longer Analyzing.
Analyze(l, fn) ==
    IF l.stats[fn].state # "Unknown" THEN l
    ELSE AnalyzeFrom(SetState(l, fn, "Analyzing"), fn, 1, 1, {})

AnalyzeFrom(l, fn, r, i, seen) ==
    IF r > Len(Returns(l, fn)) THEN l
    ELSE IF i > Len(TargetIndexes(l, fn)) THEN AnalyzeFrom(l, fn, r + 1, 1, seen)
    ELSE LET d == Decide(l, fn, Returns(l, fn)[r][TargetIndexes(l, fn)[i]], seen)
         IN  IF d.l.panicked \/ d.l.stats[fn].state # "Analyzing" THEN d.l
             ELSE AnalyzeFrom(d.l, fn, r, i + 1, d.seen)

Decide(l0, fn, ref, seen) ==
    LET val == IF ref.op = "PhiRef" THEN LoopPhi(ref.site) ELSE ref
        l == [l0 EXCEPT !.visits = Append(@, [fn |-> fn, val |-> val])]
    IN
    IF val \in seen THEN [l |-> l0, seen |-> seen]
    ELSE LET seen1 == seen \cup {val}
             done(l1) == [l |-> l1, seen |-> seen1]
         IN  CASE val.op = "Call" ->
                    IF val.callee # NoName
                    THEN LET l2 == Analyze(Stat(l, val.callee), val.callee)
                             next == l2.stats[val.callee]
                         IN  CASE l2.panicked -> done(l2)
                               [] val.callee \notin DOMAIN l.stats /\ Irrelevant(l, val.callee) ->
                                    done(l2)
                               [] next.state = "Clean" -> done(l2)
                               [] next.state = "Dirty" ->
                                    done(MarkDirty(l2, fn, Because(val, "calls") \o next.why))
                               [] OTHER ->
                                    done([l2 EXCEPT !.stats[val.callee].dirties =
                                            [c \in DOMAIN @ \cup {fn} |->
                                                IF c = fn THEN val ELSE @[c]]])
                    ELSE done(CalleeNotStatic(l, fn, val))
               [] val.op = "Const" ->
                    IF ~val.isNil /\ SeesTuple(val.type) THEN done(Panicked(l))
                    ELSE IF DisallowedConst(val)
                    THEN done(MarkDirty(l, fn, Because(val, "constant of type")))
                    ELSE done(l)
               [] val.op = "Extract" -> Decide(l, fn, val.tuple, seen1)
               [] val.op = "MakeInterface" -> Decide(l, fn, val.x, seen1)
               [] val.op = "Phi" -> DecideEdges(l, fn, val.edges, 1, seen1)
               [] val.op = "TypeAssert" ->
                    IF SeesTuple(val.asserted) THEN done(Panicked(l))
                    ELSE IF ~IsAllowed(val.asserted)
                    THEN done(MarkDirty(l, fn, Because(val, "assertion to")))
                    ELSE done(l)
               [] val.op = "UnOp" ->
                    IF val.tok = "MUL" THEN Decide(l, fn, val.x, seen1) ELSE done(l)
               [] OTHER ->
                    IF SeesTuple(val.type) THEN done(Panicked(l))
                    ELSE IF ~IsAllowed(val.type)
                    THEN done(MarkDirty(l, fn, Because(val, "result of disallowed type")))
                    ELSE done(l)

DecideEdges(l, fn, edges, k, seen) ==
    IF k > Len(edges) \/ l.panicked THEN [l |-> l, seen |-> seen]
    ELSE LET d == Decide(l, fn, edges[k], seen)
         IN  DecideEdges(d.l, fn, edges, k + 1, d.seen)

\* A configured type name, as path.Split cuts it at its last slash.
TypeName(path, name) == [path |-> path, name |-> name]

\* The names types.Universe knows and whether their type is a named one,
\* and the types of the loaded packages; an alias of a basic type is a
\* member of its package whose type is not a named one.
UniverseNamed == [error |-> TRUE, int |-> FALSE]

PackageNamed ==
    [testdata |-> [GoodValError |-> TRUE, GoodPtrError |-> TRUE, Alias |-> FALSE]]

Resolved(type) == [kind |-> "ok", type |-> type, err |-> "nil"]

ResolveError(msg) == [kind |-> "error", type |-> OtherType, err |-> msg]

\* A resolve that leaves found nil when the universe lacks the name.
ResolveGuarded(tn) ==
    LET inScope == IF tn.path = "" THEN tn.name \in DOMAIN UniverseNamed
                   ELSE tn.path \in DOMAIN PackageNamed
                        /\ tn.name \in DOMAIN PackageNamed[tn.path]
        named == IF tn.path = "" THEN UniverseNamed[tn.name]
                 ELSE PackageNamed[tn.path][tn.name]
    IN  IF ~inScope THEN ResolveError("unable to find type")
        ELSE IF named THEN Resolved(Named(tn.name))
        ELSE ResolveError("was not a named type")

\* resolve: a name without a path is looked up in the universe scope and
\* tgtObject.Type() is called whether or not the lookup found an object;
\* a name with a path is looked up in the package of that path.
Resolve(tn) ==
    IF tn.path = "" /\ tn.name \notin DOMAIN UniverseNamed
    THEN [kind |-> "panic", type |-> OtherType, err |-> "nil pointer dereference"]
    ELSE ResolveGuarded(tn)

\* The head of Execute: the test of TargetName, resolve on the target
\* name and on the allowed names in order; the first failure ends it.
RECURSIVE ResolveAll(_, _)
ResolveAll(names, k) ==
    IF k > Len(names) THEN Resolved(TargetType)
    ELSE LET r == Resolve(names[k]) IN
         IF r.kind # "ok" THEN r ELSE ResolveAll(names, k + 1)

ResolveConfig(cfg) ==
    IF cfg.target = TypeName("", "") THEN ResolveError("no target interface name set")
    ELSE ResolveAll(<<cfg.target>> \o cfg.allowed, 1)

NoConfig == [target |-> TypeName("", ""), allowed |-> <<>>]

ResolveNames ==
    /\ lintPc = "resolve"
    /\ LET r == ResolveConfig(lintConfig) IN
        /\ lintErr' = IF r.kind = "panic" THEN "panic" ELSE r.err
        /\ lintPc' = CASE r.kind = "ok" -> "bootstrap"
                       [] r.kind = "error" -> "done"
                       [] OTHER -> "panicked"
    /\ UNCHANGED <<fns, members, stats, lintWork, round, lintLog, lintMarks, lintVisits, dirtyFuncs, lintConfig>>
    /\ UNCHANGED <<enforcerVars, contextVars, mainVars, scanVars>>

\* The analysis as the operators above carry it: the program, the order in
\* which ranges over maps visit the functions, l.stats, l.work and the
\* changes of state, the calls of markDirty and the values decide went into
\* so far, and whether isAllowed has panicked.
Linter == [fns |-> fns, order |-> members, stats |-> stats, work |-> lintWork,
           log |-> lintLog, marks |-> lintMarks, visits |-> lintVisits, panicked |-> FALSE]

\* Execute's bootstrap: stat on every function of the input packages;
\* the functions of their dependencies are not members of sPkgs.
RECURSIVE StatAll(_, _)
StatAll(l, k) ==
    IF k > Len(l.order) THEN l
    ELSE StatAll(IF l.fns[l.order[k]].input THEN Stat(l, l.order[k]) ELSE l, k + 1)

Bootstrap ==
    /\ lintPc = "bootstrap"
    /\ LET l == StatAll(Linter, 1) IN
        /\ stats' = l.stats
        /\ lintWork' = l.work
    /\ lintPc' = "loop"
    /\ UNCHANGED <<fns, members, round, lintLog, lintMarks, lintVisits, dirtyFuncs, lintConfig, lintErr>>
    /\ UNCHANGED <<enforcerVars, contextVars, mainVars, scanVars>>

\* A loop that takes the work without "l.work = nil".
TakeWorkKeep ==
    /\ lintPc = "loop"
    /\ round = <<>>
    /\ IF lintWork = <<>>
       THEN lintPc' = "finish" /\ UNCHANGED <<round, lintWork>>
       ELSE round' = lintWork /\ UNCHANGED <<lintWork, lintPc>>
    /\ UNCHANGED <<fns, members, stats, lintLog, lintMarks, lintVisits, dirtyFuncs, lintConfig, lintErr>>
    /\ UNCHANGED <<enforcerVars, contextVars, mainVars, scanVars>>

\* "for l.work != nil { work := l.work; l.work = nil": the next round, or
\* the end of the loop.
TakeWork ==
    /\ lintPc = "loop"
    /\ round = <<>>
    /\ IF lintWork = <<>>
       THEN lintPc' = "finish" /\ UNCHANGED <<round, lintWork>>
       ELSE round' = lintWork /\ lintWork' = <<>> /\ UNCHANGED lintPc
    /\ UNCHANGED <<fns, members, stats, lintLog, lintMarks, lintVisits, dirtyFuncs, lintConfig, lintErr>>
    /\ UNCHANGED <<enforcerVars, contextVars, mainVars, scanVars>>

\* "for _, stat := range work { l.analyze(stat) }": one iteration. A panic
\* of isAllowed is passed on by analyze and ends Execute.
AnalyzeNext ==
    /\ lintPc = "loop"
    /\ round # <<>>
    /\ LET l == Analyze(Linter, Head(round)) IN
        /\ stats' = l.stats
        /\ lintWork' = l.work
        /\ lintLog' = l.log
        /\ lintMarks' = l.marks
        /\ lintVisits' = l.visits
        /\ lintPc' = IF l.panicked THEN "panicked" ELSE lintPc
        /\ lintErr' = IF l.panicked THEN TuplePanic ELSE lintErr
    /\ round' = Tail(round)
    /\ UNCHANGED <<fns, members, dirtyFuncs, lintConfig>>
    /\ UNCHANGED <<enforcerVars, contextVars, mainVars, scanVars>>

\* A clean-up that makes every function clean, whatever its state.
RECURSIVE CleanEvery(_, _)
CleanEvery(l, k) ==
    IF k > Len(l.order) THEN l
    ELSE CleanEvery(IF l.order[k] \in DOMAIN l.stats
                    THEN SetState(l, l.order[k], "Clean") ELSE l, k + 1)

\* "Any functions not dirty by now are clean", for the functions in order.
RECURSIVE CleanAll(_, _)
CleanAll(l, k) ==
    IF k > Len(l.order) THEN l
    ELSE LET fn == l.order[k] IN
         CleanAll(IF fn \in DOMAIN l.stats /\ l.stats[fn].state = "Analyzing"
                  THEN SetState(l, fn, "Clean") ELSE l, k + 1)

\* A filter that also returns the dirty functions of dependencies.
DirtyExported(l) ==
    {fn \in DOMAIN l.stats : l.stats[fn].state = "Dirty" /\ l.fns[fn].exported}

\* "Returns dirty functions declared in the input package(s)": the dirty
\* functions with an exported name whose package is in sPkgMap.
DirtyFunctions(l) ==
    {fn \in DOMAIN l.stats :
        l.stats[fn].state = "Dirty" /\ l.fns[fn].exported /\ l.fns[fn].input}

\* The end of Execute: the clean-up and the functions returned.
Finish ==
    /\ lintPc = "finish"
    /\ LET l == CleanAll(Linter, 1) IN
        /\ stats' = l.stats
        /\ lintLog' = l.log
        /\ dirtyFuncs' = DirtyFunctions(l)
    /\ lintPc' = "done"
    /\ UNCHANGED <<fns, members, lintWork, round, lintMarks, lintVisits, lintConfig, lintErr>>
    /\ UNCHANGED <<enforcerVars, contextVars, mainVars, scanVars>>

\* No analysis is under way.
NoFunc == [returns |-> <<>>, targetIndexes |-> <<>>, exported |-> FALSE, input |-> FALSE]

LintIdle ==
    /\ fns = [fn \in Funcs |-> NoFunc]
    /\ members = <<>>
    /\ stats = [fn \in {} |-> NewStat]
    /\ lintWork = <<>>
    /\ round = <<>>
    /\ lintPc = "idle"
    /\ lintLog = <<>>
    /\ lintMarks = <<>>
    /\ lintVisits = <<>>
    /\ dirtyFuncs = {}
    /\ lintConfig = NoConfig
    /\ lintErr = "nil"

\* ------------------------------------------------------ analysed programs

\* &GoodPtrError{} and &BadError{} returned as an error.
Good(site) == MakeInterface(site, Alloc(site, PointerTo("GoodPtrError")))

Bad(site) == MakeInterface(site, Alloc(site, PointerTo("BadError")))

\* A function with one result, of the target type; input tells whether
\* its package is one of the input packages.
FuncOf(returns, exported, input) ==
    [returns |-> returns, targetIndexes |-> <<1>>, exported |-> exported, input |-> input]

\* A function whose only return statement returns v.
ReturnsOne(v, exported, input) == FuncOf(<<<<v>>>>, exported, input)

\* The value a return statement of a function of the call-graph programs
\* returns: an allowed value, a disallowed one, or, in the first two return
\* statements, the result of a call.
GraphValues(site) ==
    {Good(site), Bad(site)}
    \cup (IF site <= 2 THEN {CallTo(site, callee, TargetType) : callee \in Funcs} ELSE {})

RECURSIVE ReturnSeqs(_, _)
ReturnSeqs(n, site) ==
    IF n = 0 THEN {<<>>}
    ELSE {<<<<v>>>> \o rest : v \in GraphValues(site), rest \in ReturnSeqs(n - 1, site + 1)}

GraphFuncs ==
    {FuncOf(rs, TRUE, TRUE) : rs \in UNION {ReturnSeqs(n, 1) : n \in 1..MaxReturns}}

\* Programs that differ in their call graph: f and g return allowed
\* values, disallowed values and calls; h is a function of a dependency,
\* such as errors.New, and returns one value.
GraphPrograms ==
    {[fn \in Funcs |-> IF fn = "f" THEN pf ELSE IF fn = "g" THEN pg
                       ELSE ReturnsOne(v, TRUE, FALSE)] :
        pf \in GraphFuncs, pg \in GraphFuncs, v \in {Bad(1), Good(1)}}

\* g() (GoodValError, error), returning an allowed first result and a
\* second result v.
TupleFunc(v) ==
    [returns |-> <<<<Alloc(1, Named("GoodValError")), v>>>>, targetIndexes |-> <<2>>,
     exported |-> TRUE, input |-> TRUE]

\* The instructions a single return statement can return, one per case of
\* decide.
ShapeValues ==
    LET call == CallTo(1, "g", TupleType)
        commaOk(type) == Extract(1, TypeAssert(1, type), 1, type)
    IN  { ConstNil(1), Good(1), Bad(1),
          MakeInterface(1, ConstOf(1, Named("GoodValError"))),
          MakeInterface(1, ConstOf(1, Named("BadError"))),
          CallTo(1, NoName, TargetType),
          MakeInterface(1, CallTo(1, NoName, Named("GoodValError"))),
          CallTo(1, "h", TargetType),
          MakeInterface(1, Extract(1, call, 1, Named("GoodValError"))),
          Extract(1, call, 2, TargetType),
          Phi(1, <<Good(1), ConstNil(1)>>),
          Phi(1, <<Good(1), Bad(1)>>),
          Phi(1, <<CallTo(1, "h", TargetType), Good(1)>>),
          Phi(1, <<Bad(1), CallTo(1, NoName, TargetType)>>),
          Phi(1, <<CallTo(1, "h", TargetType), CallTo(1, NoName, TargetType)>>),
          Phi(1, <<CallTo(1, "h", TargetType), CallTo(1, NoName, TargetType), Bad(1)>>),
          MakeInterface(1, commaOk(PointerTo("GoodPtrError"))),
          MakeInterface(1, commaOk(PointerTo("BadError"))),
          MakeInterface(1, UnOp(1, "MUL", Alloc(1, PointerTo("GoodValError")),
                                Named("GoodValError"))),
          UnOp(1, "MUL", Alloc(1, PointerTo("error")), TargetType),
          UnOp(1, "ARROW", Alloc(1, OtherType), TargetType) }

\* Programs that differ in the shape of the value f returns; g has two
\* results and h returns a *BadError, with or without an exported name,
\* from an input package or from a dependency.
ShapePrograms ==
    {[fn \in Funcs |-> IF fn = "f" THEN ReturnsOne(v, TRUE, TRUE)
                       ELSE IF fn = "g" THEN TupleFunc(w)
                       ELSE ReturnsOne(Bad(1), exported, input)] :
        v \in ShapeValues, w \in {ConstNil(1), Bad(1)}, exported \in BOOLEAN,
        input \in BOOLEAN}

\* func g() *BadError: no result is of the target type.
NoTargetFunc ==
    [returns |-> <<<<Alloc(1, PointerTo("BadError"))>>>>, targetIndexes |-> <<>>,
     exported |-> TRUE, input |-> TRUE]

\* Values that lead decide to a function without a target result, once,
\* twice and before two disallowed values, to the tuple of a map lookup and
\* of a range over a map, and to the phis of loops.
EdgeValues ==
    LET call(site) == MakeInterface(site, CallTo(site, "g", PointerTo("BadError")))
    IN  { call(1),
          Phi(1, <<call(1), call(2)>>),
          Phi(1, <<call(1), Bad(1), CallTo(1, NoName, TargetType)>>),
          Extract(1, Lookup(1), 1, TargetType),
          Phi(1, <<Bad(1), Extract(1, Lookup(1), 1, TargetType)>>),
          PhiRef(1), PhiRef(2), PhiRef(3) }

\* Programs in which f returns one of these values; g has no result of
\* the target type and h, which calls f, comes first or last.
EdgePrograms ==
    {[fn \in Funcs |-> IF fn = "f" THEN ReturnsOne(v, TRUE, TRUE)
                       ELSE IF fn = "g" THEN NoTargetFunc
                       ELSE ReturnsOne(CallTo(1, "f", TargetType), TRUE, TRUE)] :
        v \in EdgeValues}

LintPrograms == GraphPrograms \cup ShapePrograms \cup EdgePrograms

\* The configuration of the tests: the target error and the two allowed
\* error types of the test data.
GoodNames == <<TypeName("testdata", "GoodValError"), TypeName("testdata", "GoodPtrError")>>

TestConfig == [target |-> TypeName("", "error"), allowed |-> GoodNames]

\* Names resolve fails on: absent from the universe, present there but not
\* a named type, of a package without that type, of a package that is not
\* loaded, and an alias of a basic type.
FailingNames ==
    {TypeName("", "nosuch"), TypeName("", "int"), TypeName("testdata", "Missing"),
     TypeName("nopkg", "GoodValError"), TypeName("testdata", "Alias")}

\* The configurations explored: those of the tests with any of the names
\* replaced by a failing one, or with no target name.
LintConfigs ==
    {[target |-> t, allowed |-> <<a, b>>] :
        t \in {TestConfig.target, NoConfig.target} \cup FailingNames,
        a \in {GoodNames[1]} \cup FailingNames,
        b \in {GoodNames[2]} \cup FailingNames}

\* The orders in which a range over a map of the functions can visit them.
MemberOrders ==
    {s \in [1..Cardinality(Funcs) -> Funcs] : \A i, j \in DOMAIN s : s[i] = s[j] => i = j}

\* ----------------------------------------------------------- findContracts

\* One match of commentSyntax in the comments of a node.
Match(contract, config) == [contract |-> contract, config |-> config]

\* An *ast.Field: a method of an interface type or a field of a struct
\* type; isFunc tells whether its type is an *ast.FuncType.
Field(name, isFunc, doc) == [name |-> name, isFunc |-> isFunc, doc |-> doc]

\* An *ast.TypeSpec: the declared type is an interface type, a struct type,
\* the marker interface ext.Contract or a string.
TypeSpec(name, type, doc, fields) ==
    [name |-> name, type |-> type, doc |-> doc, fields |-> fields]

\* The static type of an expression: pointers around a named or an unnamed
\* type with the given underlying type.
TypeOf(pointers, named, underlying, name) ==
    [pointers |-> pointers, named |-> named, underlying |-> underlying, name |-> name]

\* An *ast.ValueSpec "var name type = value", with one value or with two.
ValueSpec(name, values, type, value) ==
    [name |-> name, values |-> values, type |-> type, value |-> value]

FuncDecl(name, recv, doc) ==
    [node |-> "FuncDecl", tok |-> "func", name |-> name, recv |-> recv, doc |-> doc,
     specs |-> <<>>, vspecs |-> <<>>]

TypeDecl(doc, specs) ==
    [node |-> "GenDecl", tok |-> "type", name |-> NoName, recv |-> FALSE, doc |-> doc,
     specs |-> specs, vspecs |-> <<>>]

VarDecl(vspecs) ==
    [node |-> "GenDecl", tok |-> "var", name |-> NoName, recv |-> FALSE, doc |-> <<>>,
     specs |-> <<>>, vspecs |-> vspecs]

\* An *ast.File: its declarations and the base of its positions.
File(base, decls) == [base |-> base, decls |-> decls]

\* The position of the comment of declaration d, of its entry s (0 for the
\* declaration itself) or of the field k of that entry (0 for the entry).
PosOf(file, d, s, k) == file.base + 100 * d + 10 * s + k

IsInterface(type) == type \in {"interface", "contract"}

NoAssertion == [intf |-> NoName, impl |-> NoName, pos |-> 0]

\* The target built for the k-th match of a comment.
ScanId(pos, k) == [space |-> "base", name |-> NoName, n |-> pos, m |-> k]

\* The closure contract: one update of the shared collections for every
\* match in the comments of a node; "type" is the type of the object.
ContractCalls(doc, pos, object, type, enclosing, kind) ==
    [k \in 1..Len(doc) |->
        [op |-> "contract", type |-> type, assertion |-> NoAssertion,
         tgt |-> NewTarget(ScanId(pos, k), doc[k].contract, doc[k].config, pos,
                           [object |-> object, enclosing |-> enclosing, kind |-> kind])]]

RECURSIVE Flatten(_)
Flatten(seqs) ==
    IF Len(seqs) = 0 THEN <<>> ELSE Head(seqs) \o Flatten(Tail(seqs))

\* case *ast.Field, with the entry "enclosing" was last set to.
FieldCalls(file, d, s, enclosing) ==
    LET spec == file.decls[d].specs[s] IN
    Flatten([k \in 1..Len(spec.fields) |->
        IF IsInterface(enclosing.type) /\ spec.fields[k].isFunc
        THEN ContractCalls(spec.fields[k].doc, PosOf(file, d, s, k), spec.fields[k].name,
                           "func", enclosing.name, "InterfaceMethod")
        ELSE <<>>])

\* case token.TYPE: the loop over t.Specs returns in its first pass, and
\* Inspect descends into the whole declaration when the first entry is an
\* interface type.
TypeSpecs(file, d) ==
    LET decl == file.decls[d] IN
    IF Len(decl.specs) = 0 THEN <<>>
    ELSE LET first == decl.specs[1]
             kind == IF first.type = "interface" THEN "Interface" ELSE "Type" IN
         ContractCalls(decl.doc, PosOf(file, d, 0, 0), first.name, first.type, NoName, kind)
            \o ContractCalls(first.doc, PosOf(file, d, 1, 0), first.name, first.type,
                             NoName, kind)
            \o (IF kind = "Interface"
                THEN Flatten([s \in 1..Len(decl.specs) |-> FieldCalls(file, d, s, first)])
                ELSE <<>>)

\* a.impl: the named struct type of the value, or of the value a single
\* pointer points to.
ImplOf(value) ==
    IF value.named /\ value.pointers <= 1 /\ value.underlying = "struct"
    THEN value.name ELSE NoName

\* case token.VAR: the assertions of the entries of a var declaration.
ValueSpecs(file, d) ==
    LET decl == file.decls[d] IN
    Flatten([s \in 1..Len(decl.vspecs) |->
        LET v == decl.vspecs[s] IN
        IF /\ v.values = 1
           /\ v.name = "_"
           /\ v.type.named
           /\ v.type.pointers = 0
           /\ IsInterface(v.type.underlying)
           /\ ImplOf(v.value) # NoName
        THEN <<[op |-> "assertion", type |-> NoName, tgt |-> NilTarget,
                assertion |-> [intf |-> v.type.name, impl |-> ImplOf(v.value),
                               pos |-> PosOf(file, d, s, 0)]]>>
        ELSE <<>>])

\* process: the updates of the shared collections one file leads to, in the
\* order of ast.Inspect.
Process(file) ==
    Flatten([d \in 1..Len(file.decls) |->
        LET decl == file.decls[d] IN
        CASE decl.node = "FuncDecl" ->
                ContractCalls(decl.doc, PosOf(file, d, 0, 0), decl.name, "func", NoName,
                              IF decl.recv THEN "Method" ELSE "Function")
          [] decl.tok = "type" -> TypeSpecs(file, d)
          [] OTHER -> ValueSpecs(file, d)])

\* A *packages.Package: whether its ID ends in ".test]", whether loading it
\* reported errors, and its files.
Package(test, errors, syntax) == [test |-> test, errors |-> errors, syntax |-> syntax]

\* The file sets of the loaded packages do not overlap.
Loaded(pkgs) ==
    [p \in 1..Len(pkgs) |->
        [pkgs[p] EXCEPT !.syntax =
            [f \in 1..Len(pkgs[p].syntax) |->
                File(10000 * p + 1000 * f, pkgs[p].syntax[f].decls)]]]

Scanners == 1..MaxWorkers

\* sendLoop from the file f of the package p on: the next file to send,
\* the package whose errors end the scan, or the end of e.pkgs.
RECURSIVE SendPoint(_, _, _, _)
SendPoint(pkgs, tests, p, f) ==
    IF p > Len(pkgs) THEN [at |-> "end", pkg |-> p, file |-> 0]
    ELSE IF f = 0 /\ tests /\ ~pkgs[p].test THEN SendPoint(pkgs, tests, p + 1, 0)
    ELSE IF f = 0 /\ pkgs[p].errors THEN [at |-> "errors", pkg |-> p, file |-> 0]
    ELSE IF f + 1 > Len(pkgs[p].syntax) THEN SendPoint(pkgs, tests, p + 1, 0)
    ELSE [at |-> "file", pkg |-> p, file |-> f + 1]

NoCollections ==
    [holder |-> 0, aliases |-> [n \in {} |-> <<>>], assertions |-> <<>>, targets |-> <<>>]

NoScanned == [aliases |-> [n \in {} |-> <<>>], assertions |-> <<>>, targets |-> <<>>]

IdleScanner == [pc |-> "idle", calls |-> <<>>, ret |-> "none"]

\* The scanner is not at work.
ScanIdle ==
    /\ scanPkgs = <<>>
    /\ scanTests = FALSE
    /\ scanCPU = 0
    /\ scanAt = [at |-> "end", pkg |-> 0, file |-> 0]
    /\ workCh = <<>>
    /\ workClosed = FALSE
    /\ scanners = [w \in Scanners |-> IdleScanner]
    /\ mu = NoCollections
    /\ scanCancelled = FALSE
    /\ scanPc = "idle"
    /\ scanErr = "nil"
    /\ scanned = NoScanned

\* The context of findContracts is cancelled.
ScanCancel ==
    /\ scanPc \in {"send", "wait"}
    /\ ~scanCancelled
    /\ scanCancelled' = TRUE
    /\ UNCHANGED <<scanPkgs, scanTests, scanCPU, scanAt, workCh, workClosed, scanners, mu,
                   scanPc, scanErr, scanned>>
    /\ UNCHANGED otherVars

\* sendLoop: workCh <- work{pkg, file}.
SendWork ==
    /\ scanPc = "send"
    /\ scanAt.at = "file"
    /\ Len(workCh) < 1
    /\ workCh' = Append(workCh, scanPkgs[scanAt.pkg].syntax[scanAt.file])
    /\ scanAt' = SendPoint(scanPkgs, scanTests, scanAt.pkg, scanAt.file)
    /\ UNCHANGED <<scanPkgs, scanTests, scanCPU, workClosed, scanners, mu, scanCancelled,
                   scanPc, scanErr, scanned>>
    /\ UNCHANGED otherVars

\* sendLoop: case <-ctx.Done() breaks the loop, and workCh is closed.
SendCancelled ==
    /\ scanPc = "send"
    /\ scanAt.at = "file"
    /\ scanCancelled
    /\ workClosed' = TRUE
    /\ scanPc' = "wait"
    /\ UNCHANGED <<scanPkgs, scanTests, scanCPU, scanAt, workCh, scanners, mu,
                   scanCancelled, scanErr, scanned>>
    /\ UNCHANGED otherVars

\* sendLoop: a package with errors ends findContracts at once.
SendErrors ==
    /\ scanPc = "send"
    /\ scanAt.at = "errors"
    /\ scanPc' = "failed"
    /\ scanErr' = "could not load source"
    /\ UNCHANGED <<scanPkgs, scanTests, scanCPU, scanAt, workCh, workClosed, scanners, mu,
                   scanCancelled, scanned>>
    /\ UNCHANGED otherVars

\* The loop is over: close(workCh).
SendEnd ==
    /\ scanPc = "send"
    /\ scanAt.at = "end"
    /\ workClosed' = TRUE
    /\ scanPc' = "wait"
    /\ UNCHANGED <<scanPkgs, scanTests, scanCPU, scanAt, workCh, scanners, mu,
                   scanCancelled, scanErr, scanned>>
    /\ UNCHANGED otherVars

\* A worker receives a file and runs process up to its first update.
ScannerReceive(w) ==
    /\ scanners[w].pc = "select"
    /\ Len(workCh) > 0
    /\ LET calls == Process(Head(workCh)) IN
       scanners' = [scanners EXCEPT ![w] =
                        [pc |-> IF Len(calls) = 0 THEN "select" ELSE "lock",
                         calls |-> calls, ret |-> "none"]]
    /\ workCh' = Tail(workCh)
    /\ UNCHANGED <<scanPkgs, scanTests, scanCPU, scanAt, workClosed, mu, scanCancelled,
                   scanPc, scanErr, scanned>>
    /\ UNCHANGED otherVars

\* A worker finds workCh closed and empty: return nil.
ScannerClosed(w) ==
    /\ scanners[w].pc = "select"
    /\ Len(workCh) = 0
    /\ workClosed
    /\ scanners' = [scanners EXCEPT ![w] = [pc |-> "exited", calls |-> <<>>, ret |-> "nil"]]
    /\ UNCHANGED <<scanPkgs, scanTests, scanCPU, scanAt, workCh, workClosed, mu,
                   scanCancelled, scanPc, scanErr, scanned>>
    /\ UNCHANGED otherVars

\* A worker takes case <-ctx.Done(): return ctx.Err().
ScannerCancelled(w) ==
    /\ scanners[w].pc = "select"
    /\ scanCancelled
    /\ scanners' = [scanners EXCEPT ![w] = [pc |-> "exited", calls |-> <<>>, ret |-> "ctx"]]
    /\ UNCHANGED <<scanPkgs, scanTests, scanCPU, scanAt, workCh, workClosed, mu,
                   scanCancelled, scanPc, scanErr, scanned>>
    /\ UNCHANGED otherVars

\* mu.Lock().
ScannerLock(w) ==
    /\ scanners[w].pc = "lock"
    /\ mu.holder = 0
    /\ mu' = [mu EXCEPT !.holder = w]
    /\ scanners' = [scanners EXCEPT ![w].pc = "locked"]
    /\ UNCHANGED <<scanPkgs, scanTests, scanCPU, scanAt, workCh, workClosed, scanCancelled,
                   scanPc, scanErr, scanned>>
    /\ UNCHANGED otherVars

\* A scanner that files every target under mu.targets.
NeverAlias(call) == FALSE

\* named.Underlying() == e.contractType.
IsContractAlias(call) == call.type = "contract"

AppendTo(table, name, tgt) ==
    [n \in DOMAIN table \cup {name} |->
        IF n = name THEN Append(IF n \in DOMAIN table THEN table[n] ELSE <<>>, tgt)
        ELSE table[n]]

\* The update of the shared collections a call makes.
Updated(m, call) ==
    IF call.op = "assertion"
    THEN [m EXCEPT !.assertions = Append(@, call.assertion)]
    ELSE IF IsContractAlias(call)
    THEN [m EXCEPT !.aliases = AppendTo(@, call.tgt.object, call.tgt)]
    ELSE [m EXCEPT !.targets = Append(@, call.tgt)]

\* The append under the mutex and mu.Unlock(); process goes on to its next
\* update, or returns.
ScannerUpdate(w) ==
    /\ scanners[w].pc = "locked"
    /\ mu' = [Updated(mu, Head(scanners[w].calls)) EXCEPT !.holder = 0]
    /\ scanners' = [scanners EXCEPT ![w].calls = Tail(@),
                                    ![w].pc = IF Len(scanners[w].calls) = 1
                                              THEN "select" ELSE "lock"]
    /\ UNCHANGED <<scanPkgs, scanTests, scanCPU, scanAt, workCh, workClosed, scanCancelled,
                   scanPc, scanErr, scanned>>
    /\ UNCHANGED otherVars

\* assertions.Less: by position.
AssertionLess(a, b) == a.pos < b.pos

\* "Produce stable output": every collection is sorted.
Sorted(m) ==
    [aliases |-> [n \in DOMAIN m.aliases |-> SortTargets(m.aliases[n])],
     assertions |-> SortSeq(m.assertions, AssertionLess),
     targets |-> SortTargets(m.targets)]

\* g.Wait() returns once every worker has: with the first error, or with
\* nil, and then the sorted collections are stored.
ScanWait ==
    /\ scanPc = "wait"
    /\ \A w \in 1..scanCPU : scanners[w].pc = "exited"
    /\ IF \E w \in 1..scanCPU : scanners[w].ret = "ctx"
       THEN /\ scanErr' = "context canceled"
            /\ scanPc' = "failed"
            /\ UNCHANGED scanned
       ELSE /\ scanned' = Sorted(mu)
            /\ scanPc' = "done"
            /\ UNCHANGED scanErr
    /\ UNCHANGED <<scanPkgs, scanTests, scanCPU, scanAt, workCh, workClosed, scanners, mu,
                   scanCancelled>>
    /\ UNCHANGED otherVars


\* Neither eddie's context, Main, retlint nor the scanner is at work.
AuxIdle == EddieIdle /\ LintIdle /\ ScanIdle

\* ---------------------------------------------------------- specifications

ExpandContracts == {"A", "B", "C", "X"}

\* Annotations of declarations: an alias used with a payload, which expand
\* drops, and a terminal contract used without one.
ExpandAnnotations ==
    {s \in AnnotationSeqs(MaxAnnotations, {"A", "B"}, {EmptyConfig, ConfigExpected1})
            \cup CommentSeqs(MaxAnnotations, {"A", "B"}, {EmptyConfig, ConfigExpected1}) :
        \A i \in 1..Len(s) : s[i].config = ConfigExpected1 <=> s[i].contract = "A"}

\* expandAll on every alias table and annotation list within the bounds.
InitExpand ==
    \E a \in AliasEntries("A", ExpandContracts, {EmptyConfig, ConfigExpected2}),
       x \in AliasEntries("X", {"A", "B", "C"}, {EmptyConfig, ConfigExpected2}),
       anns \in ExpandAnnotations :
        /\ InitWith([n \in AliasNames |-> IF n = "A" THEN a ELSE x], anns, 1,
                    [c \in Contracts |-> [reports |-> 0, fail |-> FALSE]])
        /\ AuxIdle

NextExpand == ExpandNext \/ ExpandDone \/ BindNext \/ BindDone

SpecExpand == InitExpand /\ [][NextExpand]_vars

\* Execute from expandAll on, with the alias of the demo package (two
\* terminal contracts, one of them configured), under every number of
\* workers, every behaviour of the contracts and every time of cancellation.
DemoAlias ==
    <<NewTarget(AliasId("A", 1), "B", EmptyConfig, AliasPos("A"),
                [object |-> "A", enclosing |-> NoName, kind |-> "Type"]),
      NewTarget(AliasId("A", 2), "C", ConfigExpected2, AliasPos("A"),
                [object |-> "A", enclosing |-> NoName, kind |-> "Type"])>>

DemoAliases == [n \in AliasNames |-> IF n = "A" THEN DemoAlias ELSE <<>>]

Init ==
    \E anns \in AnnotationSeqs(MaxAnnotations, {"A", "B", "U"}, {EmptyConfig, ConfigTypo}),
       cpus \in 1..MaxWorkers,
       enforce \in Enforcements :
        /\ ExpansionSize(DemoAliases, anns) <= MaxTargets
        /\ InitWith(DemoAliases, anns, cpus, enforce)
        /\ AuxIdle

Next ==
    \/ ExpandNext
    \/ ExpandDone
    \/ BindNext
    \/ BindDone
    \/ Cancel
    \/ StartEnforce
    \/ Dispatch
    \/ DispatchEnd
    \/ \E w \in Workers : WorkerReceive(w)
    \/ \E w \in Workers : WorkerClosed(w)
    \/ \E w \in Workers : WorkerCancelled(w)
    \/ \E w \in Workers : WorkerReport(w)
    \/ AggregatorStore
    \/ AggregatorExit
    \/ EnforceAllReturn
    \/ CloseReports
    \/ ExecuteReturn
    \/ MainExit

Spec == Init /\ [][Next]_vars

\* enforce's construction of the context, for every program, every setting
\* of AssertedInterfaces and every kind of declaration.
InitContext ==
    /\ InitWith([n \in AliasNames |-> <<>>], <<>>, 1,
                [c \in Contracts |-> [reports |-> 0, fail |-> FALSE]])
    /\ \E pgm \in Programs, only \in BOOLEAN :
        /\ program = pgm
        /\ assertions = Assertions(pgm)
        /\ assertedInterfaces = only
    /\ context = NoContext
    /\ setExitStatus = FALSE
    /\ exitStatus = -1
    /\ LintIdle
    /\ ScanIdle

NextContext == BuildContext

SpecContext == InitContext /\ [][NextContext]_vars

\* retlint: Execute on every program with every order of the functions
\* under the configuration of the tests, and on one program under every
\* configuration.
InitLint ==
    /\ InitWith([n \in AliasNames |-> <<>>], <<>>, 1,
                [c \in Contracts |-> [reports |-> 0, fail |-> FALSE]])
    /\ EddieIdle
    /\ ScanIdle
    /\ \/ /\ fns \in LintPrograms
          /\ members \in MemberOrders
          /\ lintConfig = TestConfig
       \/ /\ fns = [fn \in Funcs |-> IF fn = "g" THEN TupleFunc(ConstNil(1))
                                      ELSE ReturnsOne(Bad(1), TRUE, fn = "f")]
          /\ members = <<"f", "g", "h">>
          /\ lintConfig \in LintConfigs
    /\ lintErr = "nil"
    /\ stats = [fn \in {} |-> NewStat]
    /\ lintWork = <<>>
    /\ round = <<>>
    /\ lintPc = "resolve"
    /\ lintLog = <<>>
    /\ lintMarks = <<>>
    /\ lintVisits = <<>>
    /\ dirtyFuncs = {}

NextLint ==
    \/ ResolveNames
    \/ Bootstrap
    \/ TakeWork
    \/ AnalyzeNext
    \/ Finish

SpecLint == InitLint /\ [][NextLint]_vars

\* The comments of a node: none, one annotation, or two annotations of the
\* same contract in one comment.
NoDoc == <<>>

OneDoc == <<Match("B", EmptyConfig)>>

TwoDoc == <<Match("B", EmptyConfig), Match("B", ConfigExpected2)>>

Docs == {NoDoc, OneDoc}

\* The names of the types and methods of the i-th entry of a group.
InterfaceNames == <<"I", "J", "K", "L">>

MethodNames == <<"M", "N", "O", "P">>

StructNames == <<"S", "T", "V", "W">>

FieldNames == <<"f", "g", "h", "k">>

AliasTypeNames == <<"A", "X", "Y", "Z">>

\* The i-th entry of a type declaration: an interface with one method, a
\* struct with one field of a function type, or an alias of ext.Contract.
TypeSpecsAt(i) ==
    {TypeSpec(InterfaceNames[i], "interface", doc, <<Field(MethodNames[i], TRUE, mdoc)>>) :
        doc \in Docs, mdoc \in Docs}
    \cup {TypeSpec(StructNames[i], "struct", doc, <<Field(FieldNames[i], TRUE, mdoc)>>) :
            doc \in Docs, mdoc \in Docs}
    \cup {TypeSpec(AliasTypeNames[i], "contract", doc, <<>>) : doc \in Docs}

\* type T ..., and type ( ... ) groups of up to MaxSpecs entries.
TypeDecls ==
    UNION {{TypeDecl(doc, specs) :
                doc \in Docs,
                specs \in {s \in [1..n -> UNION {TypeSpecsAt(i) : i \in 1..MaxSpecs}] :
                            \A i \in 1..n : s[i] \in TypeSpecsAt(i)}} :
           n \in 1..MaxSpecs}

FuncDecls == {FuncDecl("F", recv, doc) : recv \in BOOLEAN, doc \in Docs}

\* The declared types of a var: the interface I, the struct S, and an
\* interface type literal.
DeclaredTypes ==
    {TypeOf(0, TRUE, "interface", "I"), TypeOf(0, TRUE, "struct", "S"),
     TypeOf(0, FALSE, "interface", NoName)}

\* The types of its value: S{}, &S{}, a **S, U("") and a *U for a named
\* string type U, a value of the interface J, and a struct literal.
ValueTypes ==
    {TypeOf(n, TRUE, "struct", "S") : n \in 0..2}
    \cup {TypeOf(n, TRUE, "string", "U") : n \in 0..1}
    \cup {TypeOf(0, TRUE, "interface", "J"), TypeOf(0, FALSE, "struct", NoName)}

VarDecls ==
    {VarDecl(<<ValueSpec(name, values, type, value)>>) :
        name \in {"_", "x"}, values \in 1..2, type \in DeclaredTypes, value \in ValueTypes}

\* Files of one declaration.
OneDeclFiles == {File(0, <<decl>>) : decl \in TypeDecls \cup FuncDecls \cup VarDecls}

\* Files scanned side by side.
SharedFiles ==
    <<File(0, <<FuncDecl("F", FALSE, TwoDoc)>>),
      File(0, <<TypeDecl(OneDoc, <<TypeSpec("A", "contract", NoDoc, <<>>)>>),
                VarDecl(<<ValueSpec("_", 1, TypeOf(0, TRUE, "interface", "I"),
                                    TypeOf(1, TRUE, "struct", "S"))>>)>>),
      File(0, <<TypeDecl(NoDoc, <<TypeSpec("I", "interface", OneDoc,
                                           <<Field("M", TRUE, OneDoc)>>)>>)>>)>>

\* Up to MaxFiles different files of them, in every order.
SharedSyntax ==
    UNION {{[i \in 1..n |-> SharedFiles[s[i]]] :
                s \in {t \in [1..n -> 1..Len(SharedFiles)] :
                        \A i, j \in 1..n : t[i] = t[j] => i = j}} :
           n \in 1..MaxFiles}

\* One package of one file of one declaration.
OneDeclPackages == {<<Package(TRUE, FALSE, <<file>>)>> : file \in OneDeclFiles}

\* A package of several files, followed by a package that may have errors.
SharedPackages ==
    {<<Package(test, FALSE, syntax), Package(TRUE, errors, <<>>)>> :
        test \in BOOLEAN, syntax \in SharedSyntax, errors \in BOOLEAN}

\* findContracts on every file of one declaration with one worker, and on
\* the packages of several files with every number of workers.
InitScan ==
    /\ InitWith([n \in AliasNames |-> <<>>], <<>>, 1,
                [c \in Contracts |-> [reports |-> 0, fail |-> FALSE]])
    /\ EddieIdle
    /\ LintIdle
    /\ \/ /\ scanPkgs \in {Loaded(pkgs) : pkgs \in OneDeclPackages}
          /\ scanCPU = 1
       \/ /\ scanPkgs \in {Loaded(pkgs) : pkgs \in SharedPackages}
          /\ scanCPU \in 1..MaxWorkers
    /\ scanTests \in BOOLEAN
    /\ scanAt = SendPoint(scanPkgs, scanTests, 1, 0)
    /\ workCh = <<>>
    /\ workClosed = FALSE
    /\ scanners = [w \in Scanners |-> IF w <= scanCPU
                                     THEN [pc |-> "select", calls |-> <<>>, ret |-> "none"]
                                     ELSE IdleScanner]
    /\ mu = NoCollections
    /\ scanCancelled = FALSE
    /\ scanPc = "send"
    /\ scanErr = "nil"
    /\ scanned = NoScanned

NextScan ==
    \/ ScanCancel
    \/ SendWork
    \/ SendCancelled
    \/ SendErrors
    \/ SendEnd
    \/ \E w \in Scanners : ScannerReceive(w)
    \/ \E w \in Scanners : ScannerClosed(w)
    \/ \E w \in Scanners : ScannerCancelled(w)
    \/ \E w \in Scanners : ScannerLock(w)
    \/ \E w \in Scanners : ScannerUpdate(w)
    \/ ScanWait

SpecScan == InitScan /\ [][NextScan]_vars

\* ------------------------------------------------ properties of enforcement

TerminalTargets == DOMAIN enforceCount

RECURSIVE TotalMessages(_)
TotalMessages(results) ==
    IF DOMAIN results = {} THEN 0
    ELSE LET p == CHOOSE q \in DOMAIN results : TRUE IN
         Len(results[p]) + TotalMessages([q \in DOMAIN results \ {p} |-> results[q]])

MessagesAt(pos) == IF pos \in DOMAIN ret THEN ret[pos] ELSE <<>>

Occurrences(seq, m) == Cardinality({i \in 1..Len(seq) : seq[i] = m})

InFlight == \E w \in Workers : wpc[w] = "running"

\* C1: when the context is never cancelled, Execute has called Enforce
\* exactly once on every terminal target by the time it returns, and at no
\* time more than once, for every number of workers and every interleaving.
C1_EnforcedExactlyOnce ==
    ~cancelled =>
        /\ \A t \in TerminalTargets : enforceCount[t] <= 1
        /\ pc = "returned" => \A t \in TerminalTargets : enforceCount[t] = 1

C1_Witness ==
    /\ pc = "returned"
    /\ ~cancelled
    /\ numCPU >= 2
    /\ Cardinality(TerminalTargets) >= 3
    /\ \A t \in TerminalTargets : enforceCount[t] = 1

\* C2: when Execute returns, the aggregator has finished and the number of
\* messages in Results, over all positions, equals the number of Report
\* calls made; no send ever hit the closed channel.
C2_EveryReportStored ==
    pc = "returned" =>
        /\ aggPc \in {"idle", "done"}
        /\ ~panicked
        /\ TotalMessages(ret) = reportCalls

C2_Witness ==
    /\ pc = "returned"
    /\ numCPU >= 2
    /\ reportCalls >= 3
    /\ TotalMessages(ret) = reportCalls

\* C3: Execute never returns a nil error when some terminal target was left
\* unenforced.
C3_UnenforcedImpliesError ==
    (pc = "returned" /\ \E t \in TerminalTargets : enforceCount[t] = 0)
        => err # NoError

\* C4: once the context is cancelled, no step puts a further target on the
\* channel and no step begins an Enforce call.
C4_NothingStartsAfterCancel ==
    [][CtxDone => (Len(ch') <= Len(ch) /\ enforceCount' = enforceCount)]_vars

\* C5: while an Enforce call is in progress enforceAll has not returned and
\* the report channel is open, cancelled or not; no report is ever sent on
\* the closed channel.
C5_InFlightEnforceCompletes ==
    /\ InFlight => (pc \in {"send", "wait"} /\ ~reportsClosed)
    /\ ~panicked

C5_Witness ==
    /\ cancelled
    /\ InFlight
    /\ pc = "wait"
    /\ chClosed

\* C6: when Execute returns, Results hold, for every terminal target, under
\* the position of its declaration, one message naming the contract and the
\* error per Enforce call that returned an error; such an error never
\* cancels the context, and without a cancellation every target is still
\* enforced and Execute returns a nil error.
C6_EnforceErrorIsReported ==
    /\ pc = "returned" =>
        \A t \in TerminalTargets :
            Occurrences(MessagesAt(DeclPos(Declaration(t))),
                        [contract |-> t.contract, chunks |-> <<ErrorInfo(t)>>])
            = SumOf(enforceErrors,
                    {u \in TerminalTargets :
                        /\ u.contract = t.contract
                        /\ Declaration(u) = Declaration(t)})
    /\ (pc \in {"send", "wait"} /\ ~cancelled) => ~CtxDone
    /\ (pc = "returned" /\ ~cancelled /\ \E t \in TerminalTargets : enforceErrors[t] > 0) =>
        /\ err = NoError
        /\ \A t \in TerminalTargets : enforceCount[t] = 1

C6_Witness ==
    /\ pc = "returned"
    /\ ~cancelled
    /\ Cardinality(TerminalTargets) >= 2
    /\ \E t \in TerminalTargets : enforceErrors[t] = 1
    /\ \E t \in TerminalTargets : enforceErrors[t] = 0

\* A terminal target expandAll must refuse: no provider is registered for
\* its contract, or its payload is not empty and is malformed or names a
\* field the contract does not have.
Refused(t) ==
    \/ t.contract \notin Contracts
    \/ /\ t.config.shape # "empty"
       /\ \/ t.config.shape = "malformed"
          \/ t.config.key \notin ContractFields(t.contract)

FirstRefused(s) == CHOOSE i \in 1..Len(s) : Refused(s[i]) /\ \A j \in 1..(i - 1) : ~Refused(s[j])

BoundTargets ==
    IF pc = "bind" THEN SubSeq(expanded, 1, loopIdx - 1)
    ELSE IF pc = "report" THEN targets
    ELSE <<>>

\* The instance a payload describes: the constructor's defaults, with the
\* field the payload names set.
ConfiguredInstance(t) ==
    IF t.config.shape = "empty" THEN [Expected |-> DefaultExpected]
    ELSE [Expected |-> t.config.val]

\* C8: every bound target has an instance of its own, and the instance holds
\* the constructor's defaults changed by that target's payload alone.
C8_OwnInstancePerTarget ==
    LET b == BoundTargets IN
    \A i \in 1..Len(b) :
        /\ b[i].impl \in 1..Len(impls)
        /\ impls[b[i].impl] = ConfiguredInstance(b[i])
        /\ \A j \in 1..Len(b) : j # i => b[j].impl # b[i].impl

C8_Witness ==
    /\ pc = "report"
    /\ \E i, j \in 1..Len(targets) :
        /\ i < j
        /\ targets[i].contract = targets[j].contract
        /\ targets[i].config = ConfigExpected2
        /\ targets[j].config = EmptyConfig
        /\ impls[targets[j].impl].Expected = DefaultExpected
        /\ impls[targets[i].impl].Expected = 2

NamesAlias(t) == t.contract \in DOMAIN aliasDefs /\ Len(aliasDefs[t.contract]) > 0

\* C9: every terminal target expand returns for an annotation that names an
\* alias has the annotation's position, declaration, enclosing declaration
\* and kind, and the contract name and configuration of the alias target it
\* was copied for, whatever configuration the annotation carries.
C9_ExpansionKeepsAnnotation ==
    LET e == lastExpand IN
    (e.base # NilTarget /\ NamesAlias(e.base) /\ e.err = NoError) =>
        \A i \in 1..Len(e.terms) :
            LET t == e.terms[i] IN
            /\ t.id.space = "dup"
            /\ t.pos = e.base.pos
            /\ t.object = e.base.object
            /\ t.enclosing = e.base.enclosing
            /\ t.kind = e.base.kind
            /\ t.contract = aliasDefs[t.id.name][t.id.m].contract
            /\ t.config = aliasDefs[t.id.name][t.id.m].config

C9_Witness ==
    LET e == lastExpand IN
    /\ NamesAlias(e.base)
    /\ e.base.config = ConfigExpected1
    /\ e.err = NoError
    /\ Len(e.terms) >= 2
    /\ \E i \in 1..Len(e.terms) : e.terms[i].config = EmptyConfig
    /\ \E i \in 1..Len(e.terms) : e.terms[i].config = ConfigExpected2

\* What expand yields, on the alias table as scanned, for an annotation on
\* the declaration of base bound directly to an alias target's contract and
\* configuration.
DirectExpansion(base, entry) ==
    Expand([base EXCEPT !.contract = entry.contract, !.config = entry.config],
           MakeAliases(aliasDefs))

TermKeys(terms) == {<<terms[i].contract, terms[i].config>> : i \in 1..Len(terms)}

\* C10: an annotation bound to an alias yields exactly the terminal
\* (contract, configuration) pairs that annotations bound directly to the
\* alias's targets yield, for each annotation that uses the alias.
C10_AliasTransitivity ==
    LET e == lastExpand
        defs == aliasDefs[e.base.contract]
    IN  (/\ e.base # NilTarget
         /\ NamesAlias(e.base)
         /\ \A k \in 1..Len(defs) : DirectExpansion(e.base, defs[k]).err = NoError) =>
            /\ e.err = NoError
            /\ TermKeys(e.terms) =
                UNION {TermKeys(DirectExpansion(e.base, defs[k]).terms) : k \in 1..Len(defs)}

\* ------------------------------------------------- properties of expansion

\* The alias names the definition of alias n refers to.
AliasEdges(n) ==
    IF n \notin DOMAIN aliasDefs THEN {}
    ELSE {aliasDefs[n][i].contract : i \in 1..Len(aliasDefs[n])}
            \cap {m \in DOMAIN aliasDefs : Len(aliasDefs[m]) > 0}

\* The alias names reachable from the names of S in zero or more steps.
RECURSIVE AliasClosure(_)
AliasClosure(S) ==
    LET T == S \cup UNION {AliasEdges(n) : n \in S} IN
    IF T = S THEN S ELSE AliasClosure(T)

\* Alias n refers to itself, directly or through other aliases.
OnCycle(n) == n \in AliasClosure(AliasEdges(n))

\* The alias names an expansion of the annotation may meet a second time:
\* those on a cycle that is reachable from the alias the annotation uses.
RevisitedAliases(t) == {n \in AliasClosure({t.contract}) : OnCycle(n)}

\* The annotation uses an alias from which a cycle of aliases is reachable.
UsesCyclicAlias(t) ==
    /\ NamesAlias(t)
    /\ RevisitedAliases(t) # {}

\* C11: the expansion of an annotation that uses a self-referential or
\* mutually referential alias ends with a recursive-contract error at the
\* annotation's position that names a re-visited alias; it yields no
\* targets, expandAll returns that error and goes on to no further
\* annotation, and nothing is enforced.
C11_CycleIsFatal ==
    /\ pc = "expand" =>
        \A k \in 1..(loopIdx - 1) : ~UsesCyclicAlias(targets[k])
    /\ (lastExpand.base # NilTarget /\ UsesCyclicAlias(lastExpand.base)) =>
        /\ lastExpand.err.kind = "recursive"
        /\ lastExpand.err.pos = lastExpand.base.pos
        /\ lastExpand.err.name \in RevisitedAliases(lastExpand.base)
        /\ lastExpand.terms = <<>>
        /\ err = lastExpand.err
        /\ pc = "returned"
        /\ DOMAIN enforceCount = {}

\* C12: when expandAll has returned without error, no two targets of
\* e.targets have the same position and the same contract name.
C12_NoDuplicateTargets ==
    pc = "report" =>
        \A i \in 1..Len(targets) : \A j \in 1..Len(targets) :
            (targets[i].pos = targets[j].pos /\ targets[i].contract = targets[j].contract)
                => i = j

\* C13: when expandAll has returned without error, e.targets is ordered by
\* (position, contract name): no target is less than the one before it.
C13_TargetsOrdered == pc = "report" => IsSorted(targets)

\* ------------------------------------------------ properties of the results

\* The messages the enforcement of one target stores, in the order of its
\* Report calls: the reports of Enforce, then the report of its error.
TargetMessages(t) ==
    LET does == behaviour[t.contract]
        sends == does.reports + (IF does.fail THEN 1 ELSE 0)
    IN  [i \in 1..sends |->
            Message([target |-> t, pos |-> DeclPos(Declaration(t)),
                     info |-> IF does.fail /\ i = sends THEN ErrorInfo(t) ELSE <<"here">>])]

RECURSIVE StoredAll(_, _, _)
StoredAll(results, pos, msgs) ==
    IF Len(msgs) = 0 THEN results
    ELSE StoredAll(Stored(results, pos, Head(msgs)), pos, Tail(msgs))

\* The Results of a run that enforces the targets one after the other in the
\* order of e.targets, as a run with one worker does.
RECURSIVE SequentialResults(_, _)
SequentialResults(tgts, results) ==
    IF Len(tgts) = 0 THEN results
    ELSE SequentialResults(Tail(tgts),
            StoredAll(results, DeclPos(Declaration(Head(tgts))), TargetMessages(Head(tgts))))

\* e.targets as expandAll left it: the terminal targets in their order.
RECURSIVE SeqOfTargets(_)
SeqOfTargets(S) ==
    IF S = {} THEN <<>>
    ELSE LET t == CHOOSE u \in S : \A v \in S : ~TargetLess(v, u) IN
         <<t>> \o SeqOfTargets(S \ {t})

\* C14: the Results of a run that was not cancelled and returned no error
\* are those of the sequential run on the same targets and contracts,
\* whatever the number of workers and the interleaving.
C14_ResultsDeterministic ==
    (pc = "returned" /\ aggPc = "done" /\ ~cancelled /\ err = NoError) =>
        ret = SequentialResults(SeqOfTargets(TerminalTargets), [p \in {} |-> <<>>])

\* ------------------------------------------------ properties of the context

\* The structs the oracle is to report for the interface I: the asserted
\* ones, and with AssertedInterfaces off every struct that satisfies I.
Implementers ==
    IF assertedInterfaces
    THEN {s \in Structs : program[s].asserted # "no"}
    ELSE {s \in Structs : program[s].implements}

Members(seq) == {seq[i] : i \in 1..Len(seq)}

C17_ExitStatus ==
    Exited =>
        /\ exitStatus \in {0, 1}
        /\ exitStatus = 1 <=>
            (err # NoError \/ (setExitStatus /\ TotalMessages(ret) > 0))

\* -------------------------------------------------- properties of retlint

\* val makes its function dirty in one step, or through a call to a
\* function of S.
RECURSIVE Hits(_, _)
Hits(val, S) ==
    CASE val.op = "Call" -> val.callee = NoName \/ val.callee \in S
      [] val.op = "Const" -> ~val.isNil /\ ~IsAllowed(val.type)
      [] val.op = "Extract" -> Hits(val.tuple, S)
      [] val.op = "MakeInterface" -> Hits(val.x, S)
      [] val.op = "Phi" -> \E k \in DOMAIN val.edges : Hits(val.edges[k], S)
      [] val.op = "TypeAssert" -> ~IsAllowed(val.asserted)
      [] val.op = "UnOp" -> val.tok = "MUL" /\ Hits(val.x, S)
      [] OTHER -> ~IsAllowed(val.type)

\* The values fn returns at its target indexes.
TargetValues(fn) ==
    {fns[fn].returns[r][fns[fn].targetIndexes[i]] :
        r \in DOMAIN fns[fn].returns, i \in DOMAIN fns[fn].targetIndexes}

\* The functions with a dirty-producing path of at most k reasons.
RECURSIVE DirtyWithin(_)
DirtyWithin(k) ==
    IF k = 0 THEN {}
    ELSE LET S == DirtyWithin(k - 1) IN
         {fn \in Funcs : \E val \in TargetValues(fn) : Hits(val, S)}

\* The length of the shortest dirty-producing path from fn.
MinWhy(fn) ==
    CHOOSE k \in 1..Cardinality(Funcs) :
        fn \in DirtyWithin(k) /\ fn \notin DirtyWithin(k - 1)

DirtyStats == {fn \in DOMAIN stats : stats[fn].state = "Dirty"}

\* C18: when RetLint.Execute finishes, the why chain stored for a Dirty
\* function is as long as its shortest dirty-producing path.
C18_ShortestWhy ==
    lintPc = "done" =>
        \A fn \in DirtyStats :
            /\ fn \in DirtyWithin(Cardinality(Funcs))
            /\ Len(stats[fn].why) = MinWhy(fn)

\* The changes of state a function may go through.
StateSteps ==
    {<<"Unknown", "Analyzing">>, <<"Analyzing", "Dirty">>, <<"Analyzing", "Clean">>}

\* C19: a function's state never regresses: every change of state is
\* Unknown to Analyzing, Analyzing to Dirty, or Analyzing to Clean, the
\* last one only in the clean-up that ends Execute; so a Dirty function
\* stays Dirty and a Clean function is never made Dirty.
C19_StatesNeverRegress ==
    \A i \in DOMAIN lintLog :
        /\ <<lintLog[i].from, lintLog[i].to>> \in StateSteps
        /\ lintLog[i].to = "Clean" => lintPc = "done"
        /\ \A j \in DOMAIN lintLog :
            (j < i /\ lintLog[j].fn = lintLog[i].fn) => lintLog[j].to = lintLog[i].from

\* Execute has finished with a clean function and with a dirty function
\* that was marked again through the dirties of a function it calls.
C19_Witness ==
    /\ lintPc = "done"
    /\ \E fn \in DOMAIN stats : stats[fn].state = "Clean"
    /\ \E fn \in DirtyStats : \E c \in DOMAIN stats[fn].dirties : c # fn /\ c \in DirtyStats

\* val is nil or a value whose type, once pointers are unwrapped, is
\* allowed; a converted value counts with the type it had before the
\* conversion to the interface, a Phi with all its edges.
RECURSIVE AllowedValue(_)
AllowedValue(val) ==
    CASE val.op = "Const" /\ val.isNil -> TRUE
      [] val.op = "MakeInterface" -> IsAllowed(val.x.type)
      [] val.op = "Phi" -> \A k \in DOMAIN val.edges : AllowedValue(val.edges[k])
      [] OTHER -> IsAllowed(val.type)

\* C20: a function that returns, at its target indexes, only nil and
\* values of allowed types is never Dirty, whatever instruction produces
\* the value.
C20_AllowedNeverDirty ==
    \A fn \in DOMAIN stats :
        (\A val \in TargetValues(fn) : AllowedValue(val)) => stats[fn].state # "Dirty"

\* C21: Execute returns exactly the functions that end Dirty, have an
\* exported name and are defined in an input package.
C21_ReturnsDirtyExportedInput ==
    (lintPc = "done" /\ lintErr = "nil") =>
        /\ \A fn \in Funcs :
            fn \in dirtyFuncs <=>
                /\ fn \in DirtyStats
                /\ fns[fn].exported
                /\ fns[fn].input
        /\ \A fn \in dirtyFuncs : stats[fn].state # "Clean"

\* Execute has returned a function and has left out a dirty function with
\* an exported name that belongs to a dependency.
C21_Witness ==
    /\ lintPc = "done"
    /\ dirtyFuncs # {}
    /\ \E fn \in DirtyStats : fns[fn].exported /\ ~fns[fn].input

\* A configured name that cannot be resolved: a simple name absent from
\* the universe scope, or a qualified name whose package or type does not
\* exist.
Unresolvable(tn) ==
    IF tn.path = "" THEN tn.name \notin DOMAIN UniverseNamed
    ELSE tn.path \notin DOMAIN PackageNamed \/ tn.name \notin DOMAIN PackageNamed[tn.path]

ConfiguredNames ==
    {lintConfig.target} \cup {lintConfig.allowed[k] : k \in DOMAIN lintConfig.allowed}

\* C22: with a configured name that cannot be resolved, Execute returns an
\* error without analysing any function, and it never panics.
C22_UnresolvedNameIsError ==
    /\ lintPc # "panicked"
    /\ (lintPc # "resolve" /\ lintConfig.target # NoConfig.target
            /\ \E tn \in ConfiguredNames : Unresolvable(tn)) =>
        /\ lintPc = "done"
        /\ lintErr \notin {"nil", "panic"}
        /\ DOMAIN stats = {}

\* The static callees of the calls val reaches through tuple projection,
\* interface wrap, phi and dereference.
RECURSIVE StaticCallees(_)
StaticCallees(val) ==
    CASE val.op = "Call" -> IF val.callee # NoName THEN {val.callee} ELSE {}
      [] val.op = "Extract" -> StaticCallees(val.tuple)
      [] val.op = "MakeInterface" -> StaticCallees(val.x)
      [] val.op = "Phi" -> UNION {StaticCallees(val.edges[k]) : k \in DOMAIN val.edges}
      [] val.op = "UnOp" -> IF val.tok = "MUL" THEN StaticCallees(val.x) ELSE {}
      [] OTHER -> {}

Finished == lintPc = "done" /\ lintErr = "nil"

\* C28: at the end of Execute a function that returns the result of a
\* call to a Dirty function is Dirty, whether the callee became Dirty
\* before or after the caller examined the call.
C28_DirtyCalleeDirtiesCaller ==
    Finished =>
        \A fn \in DOMAIN stats : \A val \in TargetValues(fn) :
            \A callee \in StaticCallees(val) \cap DirtyStats : fn \in DirtyStats

\* Execute has finished with two functions that call each other, one of
\* them registered as a dependent of the other before that one became
\* Dirty, and both are Dirty.
C28_Witness ==
    /\ Finished
    /\ \E fn, callee \in DirtyStats :
        /\ fn # callee
        /\ fn \in DOMAIN stats[callee].dirties
        /\ \E val \in TargetValues(callee) : fn \in StaticCallees(val)
        /\ Len(stats[fn].why) = Len(stats[callee].why) + 1

\* The calls without a static callee that val reaches.
RECURSIVE DynamicCalls(_)
DynamicCalls(val) ==
    CASE val.op = "Call" -> IF val.callee = NoName THEN {val} ELSE {}
      [] val.op = "Extract" -> DynamicCalls(val.tuple)
      [] val.op = "MakeInterface" -> DynamicCalls(val.x)
      [] val.op = "Phi" -> UNION {DynamicCalls(val.edges[k]) : k \in DOMAIN val.edges}
      [] val.op = "UnOp" -> IF val.tok = "MUL" THEN DynamicCalls(val.x) ELSE {}
      [] OTHER -> {}

\* The values val reaches that make a function dirty in one step.
RECURSIVE ShortCauses(_)
ShortCauses(val) ==
    CASE val.op = "Extract" -> ShortCauses(val.tuple)
      [] val.op = "MakeInterface" -> ShortCauses(val.x)
      [] val.op = "Phi" -> UNION {ShortCauses(val.edges[k]) : k \in DOMAIN val.edges}
      [] val.op = "UnOp" -> IF val.tok = "MUL" THEN ShortCauses(val.x) ELSE {}
      [] OTHER -> IF Hits(val, {}) THEN {val} ELSE {}

\* call is the only value from which fn can become dirty in one step.
OnlyShortCause(fn, call) ==
    UNION {ShortCauses(val) : val \in TargetValues(fn)} = {call}

DisallowedConsts(val) == {c \in ShortCauses(val) : c.op = "Const"}

\* C30: a nil constant never makes a function Dirty: a function that
\* returns only nil constants ends Clean, and a function that returns a
\* constant that is not nil and whose type is not allowed ends Dirty.
C30_NilConstIsClean ==
    /\ \A fn \in DOMAIN stats : \A k \in DOMAIN stats[fn].why :
        stats[fn].why[k].value.op = "Const" => ~stats[fn].why[k].value.isNil
    /\ Finished =>
        \A fn \in DOMAIN stats :
            /\ (\A val \in TargetValues(fn) : val.op = "Const" /\ val.isNil)
                    => stats[fn].state = "Clean"
            /\ (\E val \in TargetValues(fn) : DisallowedConsts(val) # {})
                    => stats[fn].state = "Dirty"

\* Execute has finished with a function that returns nil and is Clean.
C30_Witness ==
    /\ Finished
    /\ \E fn \in DOMAIN stats :
        /\ TargetValues(fn) = {ConstNil(1)}
        /\ stats[fn].state = "Clean"

\* ---------------------------------------------- properties of the scanner

\* The files findContracts hands to its workers when nothing stops it.
ScannedFiles ==
    UNION {{scanPkgs[p].syntax[f] : f \in 1..Len(scanPkgs[p].syntax)} :
           p \in {q \in 1..Len(scanPkgs) : ~(scanTests /\ ~scanPkgs[q].test)}}

\* What is stored of a target, without its pointer.
Described(tgt) ==
    [contract |-> tgt.contract, config |-> tgt.config, pos |-> tgt.pos,
     object |-> tgt.object, enclosing |-> tgt.enclosing, kind |-> tgt.kind]

SeqRange(s) == {s[i] : i \in 1..Len(s)}

\* The annotations stored in e.targets, and those stored in e.aliases.
StoredTargets == {Described(t) : t \in SeqRange(scanned.targets)}

StoredAliases ==
    UNION {{Described(t) : t \in SeqRange(scanned.aliases[n])} : n \in DOMAIN scanned.aliases}

\* The scan ran to its end undisturbed.
ScanComplete == scanPc = "done" /\ ~scanCancelled

\* A type declaration scanned entry by entry: every entry gets the
\* annotations of the group and its own, and the methods of every
\* interface entry are visited with that entry as the enclosing type.
EveryTypeSpec(file, d) ==
    LET decl == file.decls[d] IN
    Flatten([s \in 1..Len(decl.specs) |->
        LET spec == decl.specs[s]
            kind == IF spec.type = "interface" THEN "Interface" ELSE "Type" IN
        ContractCalls(decl.doc, PosOf(file, d, 0, 0), spec.name, spec.type, NoName, kind)
            \o ContractCalls(spec.doc, PosOf(file, d, s, 0), spec.name, spec.type,
                             NoName, kind)
            \o (IF kind = "Interface" THEN FieldCalls(file, d, s, spec) ELSE <<>>)])

\* C23: when the scan has run to its end, every entry of every type
\* declaration of the scanned files, and not only the first one, has a
\* stored annotation for each annotation of the group's comment and of its
\* own comment, attached to its type, and the annotated methods of every
\* interface entry are stored with that entry as their enclosing type.
C23_EveryEntryOfAGroup ==
    ScanComplete =>
        \A file \in ScannedFiles :
            \A d \in 1..Len(file.decls) :
                file.decls[d].tok = "type" =>
                    \A call \in SeqRange(EveryTypeSpec(file, d)) :
                        Described(call.tgt) \in StoredTargets \cup StoredAliases

\* The assertions stored in e.assertions.
StoredAssertions == {[intf |-> a.intf, impl |-> a.impl] : a \in SeqRange(scanned.assertions)}

\* The named concrete type of a value, or of the value a single pointer
\* points to, whatever its underlying type.
ImplOfNamed(value) ==
    IF value.named /\ value.pointers <= 1 /\ ~IsInterface(value.underlying)
    THEN value.name ELSE NoName

\* The declarations "var _ I = v" of the scanned files in which I is a
\* named interface and v has a named concrete type or is a single pointer
\* to one.
AssertionDecls ==
    UNION {UNION {{[intf |-> v.type.name, impl |-> ImplOfNamed(v.value)] :
                        v \in {u \in SeqRange(file.decls[d].vspecs) :
                                /\ u.name = "_"
                                /\ u.values = 1
                                /\ u.type.named
                                /\ u.type.pointers = 0
                                /\ IsInterface(u.type.underlying)
                                /\ ImplOfNamed(u.value) # NoName}} :
                  d \in 1..Len(file.decls)} :
           file \in ScannedFiles}

\* C24: when the scan has run to its end, the stored assertions are those
\* of the declarations var _ I = v in which I is a named interface and the
\* type of v is a named concrete type T, or a single pointer to one,
\* whether T is a struct or not.
C24_AssertionIffNamedConcrete ==
    ScanComplete => StoredAssertions = AssertionDecls

\* The scanned files in the order sendLoop sends them.
ScanOrder ==
    Flatten([p \in 1..Len(scanPkgs) |->
        IF scanTests /\ ~scanPkgs[p].test THEN <<>> ELSE scanPkgs[p].syntax])

\* The collections after a list of updates made one after the other.
RECURSIVE Collected(_, _)
Collected(m, calls) ==
    IF Len(calls) = 0 THEN m ELSE Collected(Updated(m, Head(calls)), Tail(calls))

\* What one goroutine that scans the files in order would store.
ScannedInOrder ==
    Sorted(Collected(NoCollections,
                     Flatten([i \in 1..Len(ScanOrder) |-> Process(ScanOrder[i])])))

\* The shared collections change only in a step of the goroutine that
\* holds the mutex.
UpdateUnderMutex ==
    (mu'.aliases # mu.aliases \/ mu'.assertions # mu.assertions \/ mu'.targets # mu.targets)
        => (mu.holder # 0 /\ scanners[mu.holder].pc = "locked" /\ mu'.holder = 0)

\* C25: what findContracts stores is what one goroutine scanning the files
\* in order would store, for every number of workers and every interleaving
\* (so every annotation is stored once, none is lost, and a second scan
\* stores the same lists), and every update of the shared collections is
\* made by the holder of the mutex.
C25_ScanIsDeterministic ==
    /\ [](scanPc = "done" => scanned = ScannedInOrder)
    /\ [][UpdateUnderMutex]_vars

\* The names of the declared types whose underlying type is ext.Contract.
ContractAliases ==
    UNION {UNION {{spec.name : spec \in {s \in SeqRange(file.decls[d].specs) :
                                            s.type = "contract"}} :
                  d \in 1..Len(file.decls)} :
           file \in ScannedFiles}

\* Every target of the list is attached to something else than an alias
\* type, and every target of the table is filed under the name of the alias
\* type it is attached to.
AliasesApart(m) ==
    /\ \A t \in SeqRange(m.targets) : t.object \notin ContractAliases
    /\ \A n \in DOMAIN m.aliases :
        \A t \in SeqRange(m.aliases[n]) : t.object = n /\ n \in ContractAliases

\* C26: during the scan and in what it stores, an annotation attached to a
\* type whose underlying type is ext.Contract is in the alias table under
\* the name of that type and never in the target list, so that no target
\* handed on to expansion and enforcement has an alias type as its object.
C26_AliasOnlyInAliasTable ==
    AliasesApart(mu) /\ AliasesApart(scanned)

\* A finished scan that stored the annotation of an alias type in the table
\* and the annotations of other declarations in the list.
C26_Witness ==
    /\ ScanComplete
    /\ \E n \in DOMAIN scanned.aliases : Len(scanned.aliases[n]) > 0
    /\ Len(scanned.targets) > 0

\* ------------------------------------------- properties of the alias table

\* C36: expand reports a recursive contract only for an annotation from
\* whose contract name a cycle of aliases can be reached; on the alias table
\* as scanned, an annotation whose aliases form no cycle expands without
\* that error, also when two alias targets refer to the same alias.
C36_RecursiveOnlyOnCycle ==
    lastExpand.base # NilTarget =>
        (Expand(lastExpand.base, MakeAliases(aliasDefs)).err.kind = "recursive"
            => UsesCyclicAlias(lastExpand.base))

\* The lists of alias targets the table stores.
AliasLists(al) == [n \in AliasNames |-> AliasSlice(al, n)]

\* C37: no step of expandAll, and so no call of expand, changes the list of
\* alias targets the table stores under any alias name.
C37_ExpandKeepsAliasTable ==
    [][AliasLists(aliases') = AliasLists(aliases)]_vars

\* findContracts has returned.
ScanReturned == scanPc \in {"done", "failed"}

\* C35: once findContracts has returned, by whatever path, every scanner
\* worker has exited or can still exit: the work channel is closed or the
\* context is cancelled, so that no worker waits for ever in its select.
C35_NoScannerLeftBlocked ==
    ScanReturned =>
        \A w \in 1..scanCPU :
            scanners[w].pc = "exited" \/ workClosed \/ scanCancelled

\* ---------------------------------------------- termination of enforceAll

\* A step of the program itself: any step but the arrival of the external
\* cancellation, which nothing obliges to come.
Scheduled == Next /\ cancelled' = cancelled

\* Execute with annotations of the terminal contract B only: enforceAll sees
\* the targets, not where expandAll took them from.
InitFair ==
    \E anns \in AnnotationSeqs(MaxAnnotations, {"B"}, {EmptyConfig}),
       cpus \in 1..MaxWorkers,
       enforce \in {f \in Enforcements : ~f["C"].fail} :
        /\ InitWith(DemoAliases, anns, cpus, enforce)
        /\ AuxIdle

\* Execute under the Go scheduler: a goroutine that can take a step is not
\* held back for ever, and every Enforce that was called returns.
SpecFair == InitFair /\ [][Next]_vars /\ WF_vars(Scheduled)

\* Every goroutine of the errgroup has returned.
WorkersExited == \A w \in Workers : wpc[w] \in {"idle", "done"}

\* C34: provided every Enforce returns, enforceAll, once its send loop has
\* started, eventually returns with every worker exited, whenever the
\* context is cancelled and for every number of workers.
C34_EnforceAllReturns == (pc = "send") ~> (pc = "closeReports" /\ WorkersExited)

C34_Witness ==
    /\ pc = "closeReports"
    /\ WorkersExited
    /\ cancelled
    /\ numCPU = MaxWorkers
    /\ reportCalls > 0

\* ------------------------------------------------- properties of isAllowed

\* C31: the allowed-type test is never applied to a tuple type: every tuple
\* a projection leads decide to is unpacked before its type is tested, so
\* Execute never ends in the panic "should not see a tuple type".
C31_NoTuplePanic == lintErr # TuplePanic

\* ------------------------------------------------- properties of markDirty

\* The explanation offered by the call replaces a stored one, or is the
\* first.
ShorterOffered(m) == Len(m.stored) = 0 \/ Len(m.offered) < Len(m.stored)

\* The explanation of no function grows or gets lost in the step.
WhyNeverGrows ==
    \A fn \in DOMAIN stats :
        Len(stats[fn].why) > 0 =>
            /\ fn \in DOMAIN stats'
            /\ Len(stats'[fn].why) > 0
            /\ Len(stats'[fn].why) <= Len(stats[fn].why)

\* C33: markDirty replaces the stored explanation if and only if none is
\* stored or the offered one is strictly shorter; the stored explanation
\* of a function never gets longer, and an offer that is not shorter leaves
\* the function and every other funcStat as they were.
C33_ReplacedIffShorter ==
    /\ [](\A i \in DOMAIN lintMarks :
            /\ lintMarks[i].replaced <=> ShorterOffered(lintMarks[i])
            /\ ~ShorterOffered(lintMarks[i]) => lintMarks[i].unchanged)
    /\ [][WhyNeverGrows]_vars

C33_Witness ==
    \E i, j \in DOMAIN lintMarks :
        /\ Len(lintMarks[i].stored) > 0
        /\ Len(lintMarks[i].offered) = Len(lintMarks[i].stored)
        /\ lintMarks[i].offered # lintMarks[i].stored
        /\ Len(lintMarks[j].stored) > 0
        /\ Len(lintMarks[j].offered) < Len(lintMarks[j].stored)
        /\ lintMarks[j].replaced

\* C39: at every point of the analysis a function is Dirty if and only if
\* an explanation is stored for it, and markDirty is only applied to a
\* function that is Analyzing or Dirty, never to an Unknown one or to the
\* clean record the irrelevant functions share.
C39_DirtyIffWhy ==
    /\ \A fn \in DOMAIN stats : stats[fn].state = "Dirty" <=> Len(stats[fn].why) > 0
    /\ \A i \in DOMAIN lintMarks :
        /\ lintMarks[i].state \in {"Analyzing", "Dirty"}
        /\ lintMarks[i].state = "Dirty" <=> Len(lintMarks[i].stored) > 0

C39_Witness ==
    /\ lintPc = "loop"
    /\ \E fn \in DOMAIN stats : stats[fn] = clean /\ fns[fn].targetIndexes = <<>>
    /\ \E fn \in DOMAIN stats : stats[fn].state = "Dirty"
    /\ \E i, j \in DOMAIN lintMarks :
        lintMarks[i].state = "Analyzing" /\ lintMarks[j].state = "Dirty"

\* ------------------------------------------------ termination of retlint

\* The return statements after the first of a function that calls into a
\* cycle: disallowed values and calls of h.
RECURSIVE RestSeqs(_, _)
RestSeqs(n, site) ==
    IF n = 0 THEN {<<>>}
    ELSE {<<<<v>>>> \o rest : v \in {Bad(site), CallTo(site, "h", TargetType)},
                              rest \in RestSeqs(n - 1, site + 1)}

\* The functions that first return a call of callee.
CycleFuncs(callee) ==
    {FuncOf(<<<<CallTo(1, callee, TargetType)>>>> \o rest, TRUE, TRUE) :
        rest \in UNION {RestSeqs(n, 2) : n \in 0..(MaxReturns - 1)}}

\* Programs in which f and g call each other, so that each is registered in
\* the dirties of the other, and h joins the work list in a later round.
CyclePrograms ==
    {[fn \in Funcs |-> IF fn = "f" THEN pf ELSE IF fn = "g" THEN pg
                       ELSE ReturnsOne(v, TRUE, FALSE)] :
        pf \in CycleFuncs("g"), pg \in CycleFuncs("f"), v \in {Bad(1), Good(1)}}

\* Execute on the programs with cycles of calls, on those with phis of
\* loops, tuples and irrelevant functions, under every order of the
\* functions.
InitLintFair ==
    /\ InitWith([n \in AliasNames |-> <<>>], <<>>, 1,
                [c \in Contracts |-> [reports |-> 0, fail |-> FALSE]])
    /\ EddieIdle
    /\ ScanIdle
    /\ fns \in CyclePrograms \cup EdgePrograms
    /\ members \in MemberOrders
    /\ lintConfig = TestConfig
    /\ lintErr = "nil"
    /\ stats = [fn \in {} |-> NewStat]
    /\ lintWork = <<>>
    /\ round = <<>>
    /\ lintPc = "resolve"
    /\ lintLog = <<>>
    /\ lintMarks = <<>>
    /\ lintVisits = <<>>
    /\ dirtyFuncs = {}

\* The loop of Execute has a funcStat of the round left to analyze.
AnalyzeEnabled == lintPc = "loop" /\ round # <<>>

\* Weak fairness of AnalyzeNext, with its enabling condition written out: a
\* call of analyze that can be made is made.
AnalyzeFair == []<>(~AnalyzeEnabled) \/ []<><<AnalyzeNext>>_vars

\* RetLint.Execute runs on: it is a sequential program that nothing holds
\* back.
SpecLintFair ==
    /\ InitLintFair
    /\ [][NextLint]_vars
    /\ WF_vars(ResolveNames \/ Bootstrap \/ TakeWork \/ Finish)
    /\ AnalyzeFair

\* Execute has returned or has panicked.
LintEnded == lintPc \in {"done", "panicked"}

\* analyze went past its test of the state at most once for every function.
AnalyzedOnce ==
    \A i, j \in DOMAIN lintLog :
        (lintLog[i].fn = lintLog[j].fn /\ lintLog[i].to = "Analyzing"
            /\ lintLog[j].to = "Analyzing") => i = j

\* decide went into no value twice for the same function.
VisitedOnce ==
    \A i, j \in DOMAIN lintVisits :
        (lintVisits[i].fn = lintVisits[j].fn /\ lintVisits[i].val = lintVisits[j].val) => i = j

\* C32: the analysis terminates: Execute returns or panics, having
\* analysed the returns of every function at most once and having decided
\* every value at most once for a function, whether phis or the dirties
\* form cycles.
C32_LintTerminates == <>LintEnded /\ [](AnalyzedOnce /\ VisitedOnce)

\* Execute returned after a second round for h, over a cycle of dirties
\* that markDirty went round once.
C32_Witness ==
    /\ lintPc = "done"
    /\ \E i \in DOMAIN lintMarks : lintMarks[i].fn = "f" /\ ~lintMarks[i].replaced
    /\ {"f", "g", "h"} \subseteq DOMAIN stats
    /\ "f" \in DOMAIN stats["g"].dirties /\ "g" \in DOMAIN stats["f"].dirties

\* Execute returned after decide went into two phis that are edges of each
\* other.
C32_WitnessPhi ==
    /\ lintPc = "done"
    /\ \E i \in DOMAIN lintVisits : lintVisits[i].val = LoopPhi(3)

\* ------------------------------------- the orders RetLint.Execute works in

\* "for _, stat := range work { l.analyze(stat) }" from the k-th funcStat on.
RECURSIVE AnalyzeWork(_, _, _)
AnalyzeWork(l, work, k) ==
    IF k > Len(work) \/ l.panicked THEN l
    ELSE AnalyzeWork(Analyze(l, work[k]), work, k + 1)

\* "for l.work != nil { work := l.work; l.work = nil; ... }"
RECURSIVE AnalyzeRounds(_)
AnalyzeRounds(l) ==
    IF l.work = <<>> \/ l.panicked THEN l
    ELSE AnalyzeRounds(AnalyzeWork([l EXCEPT !.work = <<>>], l.work, 1))

\* The whole of Execute on a program, after the names are resolved: the
\* range over pkg.Members visits the functions in the order seeds, the
\* ranges over stat.dirties and l.stats visit them in the order given.
ExecuteIn(pgm, seeds, order) ==
    LET l0 == [fns |-> pgm, order |-> seeds, stats |-> [fn \in {} |-> NewStat],
               work |-> <<>>, log |-> <<>>, marks |-> <<>>, visits |-> <<>>,
               panicked |-> FALSE]
        l1 == AnalyzeRounds([StatAll(l0, 1) EXCEPT !.order = order])
    IN  IF l1.panicked THEN l1 ELSE CleanAll(l1, 1)

\* The program with the return statements of every function in the
\* opposite order.
ReturnsReversed(pgm) ==
    [fn \in DOMAIN pgm |->
        [pgm[fn] EXCEPT !.returns = [i \in DOMAIN @ |-> @[Len(@) + 1 - i]]]]

\* The functions Execute ends with in state Dirty, and those of them that
\* belong to the input packages.
DirtyIn(l) == {fn \in DOMAIN l.stats : l.stats[fn].state = "Dirty"}

DirtyInputIn(l) == {fn \in DirtyIn(l) : l.fns[fn].input}

\* Execute has returned its result for the program.
LintReturned == lintPc = "done" /\ lintErr = "nil"

====
